---- MODULE Spec2Model ----
(***************************************************************************)
(* A model of cratesfyi's crate module (src/docbuilder/crte.rs) and of the *)
(* relational schema it writes to (src/db.rs).                             *)
(*                                                                         *)
(* Text values on which the code performs text operations (prefix match,   *)
(* substring test, slug derivation, regular-expression match, formatting   *)
(* of the canonical name) are sequences of one-character strings.          *)
(* Indices into Crate.versions are 0-based, as in the code.                *)
(***************************************************************************)
EXTENDS Integers, Sequences, FiniteSets, TLC

\* ------------------------------------------------------------------------
\* Text helpers
\* ------------------------------------------------------------------------

\* Option<T>: None and Some(x)
None == <<>>
Some(x) == <<x>>

\* 0-based indexing of a Vec
At(v, i) == v[i + 1]

\* str::starts_with
starts_with(s, p) ==
    /\ Len(p) <= Len(s)
    /\ \A k \in 1..Len(p) : s[k] = p[k]

\* str::contains
contains(s, p) ==
    \E o \in 0..(Len(s) - Len(p)) : \A k \in 1..Len(p) : s[o + k] = p[k]

Range(s) == {s[k] : k \in 1..Len(s)}

RECURSIVE Reverse(_)
Reverse(s) == IF s = <<>> THEN <<>> ELSE Reverse(Tail(s)) \o <<Head(s)>>

\* ------------------------------------------------------------------------
\* Crate and the index resolver
\* ------------------------------------------------------------------------

\* Crate::new
Crate(name, versions) == [name |-> name, versions |-> versions]

Ok(v) == [ok |-> TRUE, val |-> v]
Err(e) == [ok |-> FALSE, err |-> e]

\* A line of an index file, as the JSON parser sees it: invalid JSON, a JSON
\* value that is not an object, or an object whose "name" and "vers" members
\* are strings or are missing / not strings (None).
parse_cargo_index_line(line) ==
    IF line.json = "invalid" THEN Err("ParseError")
    ELSE IF line.json # "object" THEN Err("NotObject")
    ELSE IF line.name = None THEN Err("NameNotFound")
    ELSE IF line.vers = None THEN Err("VersNotFound")
    ELSE Ok(<<line.name, line.vers>>)

\* The loop of from_cargo_index_file over the lines k..Len(lines), with the
\* name and versions accumulated so far.
RECURSIVE IndexFileLines(_, _, _, _)
IndexFileLines(lines, k, name, versions) ==
    IF k > Len(lines) THEN Ok(Crate(name, Reverse(versions)))
    ELSE LET r == parse_cargo_index_line(lines[k])
         IN IF ~r.ok THEN r
            ELSE IndexFileLines(lines, k + 1, r.val[1], Append(versions, r.val[2]))

\* from_cargo_index_file as it would be without versions.reverse(): the
\* versions stay in line order
from_cargo_index_file_unreversed(file) ==
    IF ~file.readable THEN Err("IoError")
    ELSE LET c == IndexFileLines(file.lines, 1, <<>>, <<>>)
         IN IF c.ok THEN Ok(Crate(c.val.name, Reverse(c.val.versions))) ELSE c

from_cargo_index_file(file) ==
    IF ~file.readable THEN Err("IoError")
    ELSE IndexFileLines(file.lines, 1, <<>>, <<>>)

DotGit == <<".", "g", "i", "t">>
ConfigJson == <<"c", "o", "n", "f", "i", "g", ".", "j", "s", "o", "n">>

\* from_cargo_index_path on a directory: dir.path is its path string, and
\* dir.entries its entries in read_dir order.  IndexPathLoop is the for loop
\* from entry k on.
RECURSIVE IndexPathLoop(_, _, _)
from_cargo_index_path(name, dir) ==
    IF ~dir.isdir THEN Err("FileNotFound")
    ELSE IndexPathLoop(name, dir, 1)

IndexPathLoop(name, dir, k) ==
    IF k > Len(dir.entries) THEN Err("FileNotFound")
    ELSE LET file == dir.entries[k]
             path == dir.path \o <<"/">> \o file.name
         IN IF contains(path, DotGit) \/ file.name = ConfigJson
            THEN IndexPathLoop(name, dir, k + 1)
            ELSE IF file.isdir
            THEN LET c == from_cargo_index_path(name, [file EXCEPT !.path = path])
                 IN IF c.ok THEN c ELSE IndexPathLoop(name, dir, k + 1)
            ELSE IF file.name = name
            THEN from_cargo_index_file(file)
            ELSE IndexPathLoop(name, dir, k + 1)

\* get_version_index as it would be if the loop did not return at the first
\* equal version
get_version_index_last(crte, requested_version) ==
    IF \E i \in 0..(Len(crte.versions) - 1) : At(crte.versions, i) = requested_version
    THEN Some(CHOOSE i \in 0..(Len(crte.versions) - 1) :
            /\ At(crte.versions, i) = requested_version
            /\ \A j \in (i + 1)..(Len(crte.versions) - 1) :
                  At(crte.versions, j) # requested_version)
    ELSE None

\* Crate::get_version_index
get_version_index(crte, requested_version) ==
    IF \E i \in 0..(Len(crte.versions) - 1) : At(crte.versions, i) = requested_version
    THEN Some(CHOOSE i \in 0..(Len(crte.versions) - 1) :
            /\ At(crte.versions, i) = requested_version
            /\ \A j \in 0..(i - 1) : At(crte.versions, j) # requested_version)
    ELSE None

\* version_starts_with as it would be if it compared whole version strings
version_starts_with_whole(crte, version) ==
    IF version = <<"*">> THEN Some(0)
    ELSE IF \E i \in 0..(Len(crte.versions) - 1) : At(crte.versions, i) = version
    THEN Some(CHOOSE i \in 0..(Len(crte.versions) - 1) :
            /\ At(crte.versions, i) = version
            /\ \A j \in 0..(i - 1) : At(crte.versions, j) # version)
    ELSE None

\* Crate::version_starts_with
version_starts_with(crte, version) ==
    IF version = <<"*">> THEN Some(0)
    ELSE IF \E i \in 0..(Len(crte.versions) - 1) : starts_with(At(crte.versions, i), version)
    THEN Some(CHOOSE i \in 0..(Len(crte.versions) - 1) :
            /\ starts_with(At(crte.versions, i), version)
            /\ \A j \in 0..(i - 1) : ~starts_with(At(crte.versions, j), version))
    ELSE None

\* a canonical name that always names the latest version
canonical_name_latest(crte, version_index) ==
    crte.name \o <<"-">> \o At(crte.versions, 0)

\* Crate::canonical_name
canonical_name(crte, version_index) ==
    crte.name \o <<"-">> \o At(crte.versions, version_index)

\* The archive file name used by extract_crate, download_crate and
\* remove_crate_file: format!("{}.crate", canonical_name)
crate_file_name(crte, version_index) ==
    canonical_name(crte, version_index) \o <<".", "c", "r", "a", "t", "e">>


\* ------------------------------------------------------------------------
\* Bounds and the external world of the model
\* ------------------------------------------------------------------------

\* number of build_crate_doc calls in a behaviour
MaxBuilds == 2
\* number of injected failures (IO errors, failing or unstartable external
\* commands, rejected database queries) in a behaviour
MaxFaults == 2

Builders == {1}

Str1(c) == <<c>>
V10 == <<"1", ".", "0">>
V11 == <<"1", ".", "1">>
V20 == <<"2", ".", "0">>

\* A file of the mirrored index: one JSON object per line, oldest first.
IndexLine(n, v) == [json |-> "object", name |-> n, vers |-> v]
IndexFile(n, vs) ==
    [name |-> n, isdir |-> FALSE, readable |-> TRUE,
     lines |-> [k \in 1..Len(vs) |-> IndexLine(n, vs[k])]]
IndexDir(n, es) == [name |-> n, isdir |-> TRUE, path |-> <<>>, entries |-> es]

\* docbuilder.crates_io_index_path: the mirrored index tree.  It holds the
\* packages d (1.0, 1.1, 2.0) and e (1.0); u is in no index file.
CratesIoIndex ==
    [IndexDir(Str1("i"),
        << IndexDir(DotGit, << IndexFile(Str1("u"), <<V10>>) >>),
           [IndexFile(ConfigJson, <<>>) EXCEPT !.lines = <<[json |-> "nonobject"]>>],
           IndexDir(Str1("1"), << IndexFile(Str1("d"), <<V10, V11, V20>>),
                                  IndexFile(Str1("e"), <<V10>>) >>) >>)
     EXCEPT !.path = Str1("i")]

\* One entry of the [dependencies] table of a Cargo.toml: the key, whether
\* its value is a table, and the table's "path" and "version" strings
\* (None when missing or not a string).
Dep(key, istable, path, version) ==
    [key |-> key, istable |-> istable, path |-> path, version |-> version]

\* The Cargo.toml of an extracted package: "missing" (no such file),
\* "unparsable", "nodeps" (no dependencies table), or "table" with the
\* dependencies table as the sequence of its entries in key order (BTreeMap
\* iteration order).
Toml(kind, deps) == [kind |-> kind, deps |-> deps]
CargoTomls ==
    { Toml("missing", <<>>), Toml("unparsable", <<>>), Toml("nodeps", <<>>),
      Toml("table",
        << Dep(Str1("d"), TRUE, Some(Str1("p")), Some(Str1("1"))),
           Dep(Str1("e"), TRUE, Some(Str1("q")), None),
           Dep(Str1("f"), TRUE, None, Some(Str1("1"))),
           Dep(Str1("g"), FALSE, None, None) >>),
      Toml("table",
        << Dep(Str1("d"), TRUE, Some(Str1("p")), Some(Str1("*"))),
           Dep(Str1("e"), TRUE, Some(Str1("q")), Some(Str1("1"))) >>),
      Toml("table", << Dep(Str1("d"), TRUE, Some(Str1("p")), None) >>),
      Toml("table", << Dep(Str1("e"), TRUE, None, Some(Str1("1"))) >>),
      Toml("table",
        << Dep(Str1("d"), TRUE, Some(Str1("p")), Some(Str1("3"))),
           Dep(Str1("u"), TRUE, Some(Str1("q")), Some(Str1("1"))) >>) }

\* The Cargo.toml inside the archive of a package of the index: d declares
\* the local dependency e with a path and a version, e declares none.
DepCargoToml(crte) ==
    IF crte.name = Str1("d")
    THEN Toml("table", << Dep(Str1("e"), TRUE, Some(Str1("r")), Some(Str1("1"))) >>)
    ELSE Toml("nodeps", <<>>)

\* The packages build_crate_doc is called for.
BuildCrate == Crate(Str1("a"), <<V11, V10>>)

\* The working directory the process is started in.
WorkDir == << Str1("w") >>

CargoTomlName == <<"C", "a", "r", "g", "o", ".", "t", "o", "m", "l">>

\* ------------------------------------------------------------------------
\* State
\* ------------------------------------------------------------------------

VARIABLES
    cwd,        \* the process-wide current working directory (absolute path)
    files,      \* the absolute paths that exist on disk
    bld,        \* per build_crate_doc call: its position and local variables
    builds,     \* number of build_crate_doc calls started
    faults,     \* number of injected failures
    db,         \* the relational store
    world,      \* what the ingestor reads from outside: source copies,
                \* manifests, registry responses, build evidence
    ing,        \* per add_crate_into_database call: position and locals
    ingests,    \* number of add_crate_into_database calls started
    prev,       \* the previous call: its arguments, result and final store
    db0,        \* the store when the current call, or the first of the
                \* failed calls it repeats, began
    rsv         \* the Index Resolver: the index tree it reads, the Crate it
                \* holds, its last call and whether that repeated the one before

vars == <<cwd, files, bld, builds, rsv, faults, db, world, ing, ingests, prev, db0>>

\* the variables of the Metadata Ingestor and of the Index Resolver, which
\* the Build Executor leaves alone
ivars == <<db, world, ing, ingests, prev, db0, rsv>>

\* ------------------------------------------------------------------------
\* Filesystem
\* ------------------------------------------------------------------------

IsPrefix(p, q) == Len(p) <= Len(q) /\ SubSeq(q, 1, Len(p)) = p

\* a relative path resolved against the current working directory
Abs(rel) == cwd \o rel

\* fs::remove_dir_all
remove_dir_all(fs, p) == {f \in fs : ~IsPrefix(p, f)}

\* copy_files(src, dst): every path under src appears under dst
copy_files(fs, src, dst) ==
    fs \cup {dst} \cup {dst \o SubSeq(f, Len(src) + 1, Len(f)) : f \in {g \in fs : IsPrefix(src, g)}}

\* what tar leaves on disk for the archive of (crte, version_index) whose
\* manifest is toml, extracted in directory at
extracted_tree(at, crte, version_index, toml) ==
    {at \o <<canonical_name(crte, version_index)>>} \cup
    (IF toml.kind = "missing" THEN {}
     ELSE {at \o <<canonical_name(crte, version_index), CargoTomlName>>})

\* command_result: Ok(output) iff the command exited with status zero
command_result(exit, output) ==
    IF exit = 0 THEN Ok(output) ELSE Err(output)

CanFault == faults < MaxFaults


\* ------------------------------------------------------------------------
\* Dependency Stager: which dependencies are staged
\* ------------------------------------------------------------------------

\* The guard chain of get_local_dependencies for one table entry: the value
\* is a table, it has a string "path" and a string "version".
HasPathAndVersion(dep) ==
    dep.istable /\ dep.path # None /\ dep.version # None

\* get_local_dependencies as it would be if a missing "version" were read
\* as "*" instead of ending the chain
RECURSIVE LocalDependenciesLoopPathOnly(_, _, _)
LocalDependenciesLoopPathOnly(table, k, acc) ==
    IF k > Len(table) THEN acc
    ELSE LET dep == table[k]
             version == IF dep.version = None THEN <<"*">> ELSE dep.version[1]
             dep_crate == from_cargo_index_path(dep.key, CratesIoIndex)
             version_index == IF dep_crate.ok
                              THEN version_starts_with(dep_crate.val, version)
                              ELSE None
         IN IF dep.istable /\ dep.path # None /\ dep_crate.ok /\ version_index # None
            THEN LocalDependenciesLoopPathOnly(table, k + 1,
                    Append(acc, [crte |-> dep_crate.val,
                                 version_index |-> version_index[1],
                                 path |-> dep.path[1]]))
            ELSE LocalDependenciesLoopPathOnly(table, k + 1, acc)

\* The loop of get_local_dependencies from entry k on; acc is
\* local_dependencies, a Vec of (Crate, version index, path).
RECURSIVE LocalDependenciesLoop(_, _, _)
LocalDependenciesLoop(table, k, acc) ==
    IF k > Len(table) THEN acc
    ELSE LET dep == table[k]
             dep_crate == from_cargo_index_path(dep.key, CratesIoIndex)
             version_index == IF dep_crate.ok
                              THEN version_starts_with(dep_crate.val, dep.version[1])
                              ELSE None
         IN IF HasPathAndVersion(dep) /\ dep_crate.ok /\ version_index # None
            THEN LocalDependenciesLoop(table, k + 1,
                    Append(acc, [crte |-> dep_crate.val,
                                 version_index |-> version_index[1],
                                 path |-> dep.path[1]]))
            ELSE LocalDependenciesLoop(table, k + 1, acc)

get_local_dependencies(dependencies_table) ==
    LocalDependenciesLoop(dependencies_table, 1, <<>>)

\* ------------------------------------------------------------------------
\* Build Executor: build_crate_doc
\* ------------------------------------------------------------------------

IdleBuild ==
    [pc |-> "idle", crte |-> BuildCrate, version_index |-> 0,
     toml |-> Toml("nodeps", <<>>),
     steps |-> <<>>, failed |-> "none", result |-> "none", error |-> "none",
     error_log |-> None, exit |-> None, message |-> None,
     saved_cwd |-> None, entry_cwd |-> None, ran_in |-> None,
     local_dependencies |-> <<>>, k |-> 1, fetched |-> {}, files0 |-> {},
     overlapped |-> FALSE]

\* the function returns Err(error); step is the step that failed
Fail(r, step, error) ==
    [r EXCEPT !.pc = "done", !.result = "err", !.error = error, !.failed = step]

\* a panic (an unwrap of an Err) unwinds out of the function
Panic(r, step) ==
    [r EXCEPT !.pc = "done", !.result = "panic", !.failed = step]

\* a build_crate_doc call is between its entry and its end
ActiveBuild(r) == r.pc \notin {"idle", "done"}

\* A call of build_crate_doc(version_index, docbuilder) begins.  toml is the
\* manifest inside the archive of the version being built.  overlapped
\* records, for the call and for every call in progress, that they are
\* active at the same time.
BuildStart(b) ==
    /\ bld[b].pc \in {"idle", "done"}
    /\ builds < MaxBuilds
    /\ \E version_index \in 0..(Len(BuildCrate.versions) - 1), toml \in CargoTomls :
          bld' = [c \in DOMAIN bld |->
                    IF c = b
                    THEN [IdleBuild EXCEPT
                            !.pc = "clean", !.version_index = version_index,
                            !.toml = toml,
                            !.overlapped = \E o \in DOMAIN bld \ {b} : ActiveBuild(bld[o])]
                    ELSE IF ActiveBuild(bld[c]) THEN [bld[c] EXCEPT !.overlapped = TRUE]
                    ELSE bld[c]]
    /\ builds' = builds + 1
    /\ UNCHANGED <<cwd, files, faults>>
    /\ UNCHANGED ivars

\* Clean: remove_build_dir_for_crate
BuildClean(b) ==
    LET r == bld[b]
        path == Abs(<<canonical_name(r.crte, r.version_index)>>)
        r1 == [r EXCEPT !.steps = Append(@, "Clean")]
    IN /\ r.pc = "clean"
       /\ IF path \in files
          THEN \/ /\ files' = remove_dir_all(files, path)
                  /\ bld' = [bld EXCEPT ![b] = [r1 EXCEPT !.pc = "fetch"]]
                  /\ UNCHANGED faults
               \/ /\ CanFault
                  /\ faults' = faults + 1
                  /\ bld' = [bld EXCEPT ![b] = Fail(r1, "Clean", "RemoveBuildDir")]
                  /\ UNCHANGED files
          ELSE /\ bld' = [bld EXCEPT ![b] = [r1 EXCEPT !.pc = "fetch"]]
               /\ UNCHANGED <<files, faults>>
       /\ UNCHANGED <<cwd, builds>>
       /\ UNCHANGED ivars

\* Fetch as it would be without the try! around download_crate
BuildFetchIgnoringFailure(b) ==
    LET r == bld[b]
        r1 == [r EXCEPT !.steps = Append(@, "Fetch")]
    IN /\ r.pc = "fetch"
       /\ \/ /\ files' = files \cup {Abs(<<crate_file_name(r.crte, r.version_index)>>)}
             /\ bld' = [bld EXCEPT ![b] = [r1 EXCEPT !.pc = "extract"]]
             /\ UNCHANGED faults
          \/ /\ CanFault
             /\ faults' = faults + 1
             /\ bld' = [bld EXCEPT ![b] = [r1 EXCEPT !.pc = "extract", !.failed = "Fetch"]]
             /\ UNCHANGED files
       /\ UNCHANGED <<cwd, builds>>
       /\ UNCHANGED ivars

\* Fetch: download_crate (wget into the current working directory)
BuildFetch(b) ==
    LET r == bld[b]
        r1 == [r EXCEPT !.steps = Append(@, "Fetch")]
    IN /\ r.pc = "fetch"
       /\ \/ /\ files' = files \cup {Abs(<<crate_file_name(r.crte, r.version_index)>>)}
             /\ bld' = [bld EXCEPT ![b] = [r1 EXCEPT !.pc = "extract"]]
             /\ UNCHANGED faults
          \/ /\ CanFault
             /\ faults' = faults + 1
             /\ \/ bld' = [bld EXCEPT ![b] = Fail(r1, "Fetch", "DownloadCrateError")]
                \/ bld' = [bld EXCEPT ![b] = Panic(r1, "Fetch")]
             /\ UNCHANGED files
       /\ UNCHANGED <<cwd, builds>>
       /\ UNCHANGED ivars

\* Extract: extract_crate (tar in the current working directory)
BuildExtract(b) ==
    LET r == bld[b]
        r1 == [r EXCEPT !.steps = Append(@, "Extract")]
    IN /\ r.pc = "extract"
       /\ \/ /\ Abs(<<crate_file_name(r.crte, r.version_index)>>) \in files
             /\ files' = files \cup extracted_tree(cwd, r.crte, r.version_index, r.toml)
             /\ bld' = [bld EXCEPT ![b] = [r1 EXCEPT !.pc = "stage"]]
             /\ UNCHANGED faults
          \/ /\ Abs(<<crate_file_name(r.crte, r.version_index)>>) \notin files
             /\ bld' = [bld EXCEPT ![b] = Fail(r1, "Extract", "ExtractCrateError")]
             /\ UNCHANGED <<files, faults>>
          \/ /\ CanFault
             /\ faults' = faults + 1
             /\ \/ bld' = [bld EXCEPT ![b] = Fail(r1, "Extract", "ExtractCrateError")]
                \/ bld' = [bld EXCEPT ![b] = Panic(r1, "Extract")]
             /\ UNCHANGED files
       /\ UNCHANGED <<cwd, builds>>
       /\ UNCHANGED ivars


\* the path of the build directory: PathBuf::from(canonical_name), relative
BuildRoot(r) == <<canonical_name(r.crte, r.version_index)>>

\* the head of the for loop of handle_local_dependencies; after the loop
\* download_dependencies returns Ok(()) and build_crate_doc goes on to build_doc
DepLoop(r) ==
    IF r.k > Len(r.local_dependencies)
    THEN [r EXCEPT !.pc = "chdir"]
    ELSE [r EXCEPT !.pc = "dep_mkdir"]

\* the local dependency the loop is at
CurDep(r) == r.local_dependencies[r.k]

\* Stage: download_dependencies reads Cargo.toml, and get_local_dependencies
\* selects the dependencies that handle_local_dependencies will stage.  A
\* manifest that does not parse, or has no dependencies table, yields Ok(()).
BuildStage(b) ==
    LET r == bld[b]
        r1 == [r EXCEPT !.steps = Append(@, "Stage"), !.files0 = files]
    IN /\ r.pc = "stage"
       /\ \/ /\ Abs(BuildRoot(r) \o <<CargoTomlName>>) \in files
             /\ bld' = [bld EXCEPT ![b] =
                   IF r.toml.kind \in {"unparsable", "nodeps"}
                   THEN [r1 EXCEPT !.pc = "chdir"]
                   ELSE DepLoop([r1 EXCEPT !.local_dependencies =
                                              get_local_dependencies(r.toml.deps),
                                           !.k = 1])]
             /\ UNCHANGED faults
          \/ /\ Abs(BuildRoot(r) \o <<CargoTomlName>>) \notin files
             /\ bld' = [bld EXCEPT ![b] = Fail(r1, "Stage", "LocalDependencyIoError")]
             /\ UNCHANGED faults
          \/ /\ CanFault
             /\ faults' = faults + 1
             /\ bld' = [bld EXCEPT ![b] = Fail(r1, "Stage", "LocalDependencyIoError")]
       /\ UNCHANGED <<cwd, files, builds>>
       /\ UNCHANGED ivars

\* handle_local_dependencies: make sure the target path exists
DepMkdir(b) ==
    LET r == bld[b]
        path == Abs(BuildRoot(r) \o <<CurDep(r).path>>)
    IN /\ r.pc = "dep_mkdir"
       /\ IF path \in files
          THEN /\ bld' = [bld EXCEPT ![b] = [r EXCEPT !.pc = "dep_download"]]
               /\ UNCHANGED <<files, faults>>
          ELSE \/ /\ files' = files \cup {path, Abs(BuildRoot(r))}
                  /\ bld' = [bld EXCEPT ![b] = [r EXCEPT !.pc = "dep_download"]]
                  /\ UNCHANGED faults
               \/ /\ CanFault
                  /\ faults' = faults + 1
                  /\ bld' = [bld EXCEPT ![b] = Fail(r, "Stage", "LocalDependencyIoError")]
                  /\ UNCHANGED files
       /\ UNCHANGED <<cwd, builds>>
       /\ UNCHANGED ivars

\* handle_local_dependencies: crte.download_crate(version_index)
DepDownload(b) ==
    LET r == bld[b]
        dep == CurDep(r)
        r1 == [r EXCEPT !.fetched = @ \cup {dep.crte.name}]
    IN /\ r.pc = "dep_download"
       /\ \/ /\ files' = files \cup {Abs(<<crate_file_name(dep.crte, dep.version_index)>>)}
             /\ bld' = [bld EXCEPT ![b] = [r1 EXCEPT !.pc = "dep_extract"]]
             /\ UNCHANGED faults
          \/ /\ CanFault
             /\ faults' = faults + 1
             /\ \/ bld' = [bld EXCEPT ![b] =
                              Fail(r1, "Stage", "LocalDependencyDownloadError")]
                \/ bld' = [bld EXCEPT ![b] = Panic(r1, "Stage")]
             /\ UNCHANGED files
       /\ UNCHANGED <<cwd, builds>>
       /\ UNCHANGED ivars

\* handle_local_dependencies: crte.extract_crate(version_index).  tar may
\* exit with status zero without leaving the directory the code expects.
DepExtract(b) ==
    LET r == bld[b]
        dep == CurDep(r)
        archive == Abs(<<crate_file_name(dep.crte, dep.version_index)>>)
    IN /\ r.pc = "dep_extract"
       /\ \/ /\ archive \in files
             /\ files' = files \cup extracted_tree(cwd, dep.crte, dep.version_index,
                                                   DepCargoToml(dep.crte))
             /\ bld' = [bld EXCEPT ![b] = [r EXCEPT !.pc = "dep_copy"]]
             /\ UNCHANGED faults
          \/ /\ archive \notin files
             /\ bld' = [bld EXCEPT ![b] =
                           Fail(r, "Stage", "LocalDependencyExtractCrateError")]
             /\ UNCHANGED <<files, faults>>
          \/ /\ CanFault
             /\ faults' = faults + 1
             /\ \/ bld' = [bld EXCEPT ![b] =
                              Fail(r, "Stage", "LocalDependencyExtractCrateError")]
                \/ bld' = [bld EXCEPT ![b] = Panic(r, "Stage")]
                \/ bld' = [bld EXCEPT ![b] = [r EXCEPT !.pc = "dep_copy"]]
             /\ UNCHANGED files
       /\ UNCHANGED <<cwd, builds>>
       /\ UNCHANGED ivars

\* handle_local_dependencies: the extraction directory must exist; its files
\* are copied to the dependency's path under the package directory
DepCopy(b) ==
    LET r == bld[b]
        dep == CurDep(r)
        crte_download_dir == Abs(<<canonical_name(dep.crte, dep.version_index)>>)
        path == Abs(BuildRoot(r) \o <<dep.path>>)
    IN /\ r.pc = "dep_copy"
       /\ IF crte_download_dir \notin files
          THEN /\ bld' = [bld EXCEPT ![b] =
                            Fail(r, "Stage", "LocalDependencyDownloadDirNotExist")]
               /\ UNCHANGED <<files, faults>>
          ELSE \/ /\ files' = copy_files(files, crte_download_dir, path)
                  /\ bld' = [bld EXCEPT ![b] = [r EXCEPT !.pc = "dep_rmdir"]]
                  /\ UNCHANGED faults
               \/ /\ CanFault
                  /\ faults' = faults + 1
                  /\ bld' = [bld EXCEPT ![b] = Fail(r, "Stage", "CopyFilesError")]
                  /\ UNCHANGED files
       /\ UNCHANGED <<cwd, builds>>
       /\ UNCHANGED ivars

\* handle_local_dependencies: fs::remove_dir_all(&crte_download_dir)
DepRemoveDir(b) ==
    LET r == bld[b]
        dep == CurDep(r)
        crte_download_dir == Abs(<<canonical_name(dep.crte, dep.version_index)>>)
    IN /\ r.pc = "dep_rmdir"
       /\ \/ /\ crte_download_dir \in files
             /\ files' = remove_dir_all(files, crte_download_dir)
             /\ bld' = [bld EXCEPT ![b] = [r EXCEPT !.pc = "dep_rmfile"]]
             /\ UNCHANGED faults
          \/ /\ crte_download_dir \notin files
             /\ bld' = [bld EXCEPT ![b] = Fail(r, "Stage", "LocalDependencyIoError")]
             /\ UNCHANGED <<files, faults>>
          \/ /\ CanFault
             /\ faults' = faults + 1
             /\ bld' = [bld EXCEPT ![b] = Fail(r, "Stage", "LocalDependencyIoError")]
             /\ UNCHANGED files
       /\ UNCHANGED <<cwd, builds>>
       /\ UNCHANGED ivars

\* handle_local_dependencies as it would be without remove_crate_file: the
\* loop goes on to the next local dependency
DepRemoveFileOmitted(b) ==
    LET r == bld[b]
    IN /\ r.pc = "dep_rmfile"
       /\ bld' = [bld EXCEPT ![b] = DepLoop([r EXCEPT !.k = @ + 1])]
       /\ UNCHANGED <<cwd, files, builds, faults>>
       /\ UNCHANGED ivars

\* handle_local_dependencies: crte.remove_crate_file(version_index), then the
\* next local dependency
DepRemoveFile(b) ==
    LET r == bld[b]
        dep == CurDep(r)
        path == Abs(<<crate_file_name(dep.crte, dep.version_index)>>)
    IN /\ r.pc = "dep_rmfile"
       /\ IF path \in files
          THEN \/ /\ files' = files \ {path}
                  /\ bld' = [bld EXCEPT ![b] = DepLoop([r EXCEPT !.k = @ + 1])]
                  /\ UNCHANGED faults
               \/ /\ CanFault
                  /\ faults' = faults + 1
                  /\ bld' = [bld EXCEPT ![b] = Fail(r, "Stage", "RemoveCrateFile")]
                  /\ UNCHANGED files
          ELSE /\ bld' = [bld EXCEPT ![b] = DepLoop([r EXCEPT !.k = @ + 1])]
               /\ UNCHANGED <<files, faults>>
       /\ UNCHANGED <<cwd, builds>>
       /\ UNCHANGED ivars

\* Invoke, build_doc: remember the working directory and change into the
\* package directory.  set_current_dir(target).unwrap() panics when the
\* directory does not exist.
BuildChdir(b) ==
    LET r == bld[b]
        target == cwd \o BuildRoot(r)
        r1 == [r EXCEPT !.steps = Append(@, "Invoke"), !.saved_cwd = cwd,
                        !.entry_cwd = cwd]
    IN /\ r.pc = "chdir"
       /\ IF target \in files
          THEN /\ cwd' = target
               /\ bld' = [bld EXCEPT ![b] = [r1 EXCEPT !.pc = "run_doc"]]
          ELSE /\ bld' = [bld EXCEPT ![b] = Panic(r1, "Invoke")]
               /\ UNCHANGED cwd
       /\ UNCHANGED <<files, builds, faults>>
       /\ UNCHANGED ivars

\* Invoke, build_doc: run `cargo doc --no-deps --verbose`.  The tool exits
\* with status zero or non-zero, or cannot be started, in which case
\* output() is an Err and its unwrap panics.
BuildRunDoc(b) ==
    LET r == bld[b]
    IN /\ r.pc = "run_doc"
       /\ \/ /\ \E exit \in {0, 101} :
                   bld' = [bld EXCEPT ![b] =
                             [r EXCEPT !.pc = "restore", !.exit = Some(exit),
                                       !.message = <<"log", exit>>, !.ran_in = cwd]]
             /\ UNCHANGED faults
          \/ /\ CanFault
             /\ faults' = faults + 1
             /\ bld' = [bld EXCEPT ![b] = Panic(r, "Invoke")]
       /\ UNCHANGED <<cwd, files, builds>>
       /\ UNCHANGED ivars

\* a build_doc that returns without env::set_current_dir(cwd)
BuildRestoreOmitted(b) ==
    LET r == bld[b]
    IN /\ r.pc = "restore"
       /\ bld' = [bld EXCEPT ![b] = [r EXCEPT !.pc = "classify"]]
       /\ UNCHANGED <<cwd, files, builds, faults>>
       /\ UNCHANGED ivars

\* Invoke, build_doc: env::set_current_dir(cwd) and return the result
BuildRestore(b) ==
    LET r == bld[b]
    IN /\ r.pc = "restore"
       /\ cwd' = r.saved_cwd
       /\ bld' = [bld EXCEPT ![b] = [r EXCEPT !.pc = "classify"]]
       /\ UNCHANGED <<files, builds, faults>>
       /\ UNCHANGED ivars

\* Classify: Ok(()) when build_doc returned Ok, else
\* Err(DocBuilderError::FailedToBuildCrate), a variant without data; the
\* captured output is only written to the log
BuildClassify(b) ==
    LET r == bld[b]
        r1 == [r EXCEPT !.steps = Append(@, "Classify")]
        status == command_result(r.exit[1], r.message).ok
    IN /\ r.pc = "classify"
       /\ bld' = [bld EXCEPT ![b] =
                    IF status
                    THEN [r1 EXCEPT !.pc = "done", !.result = "ok"]
                    ELSE Fail(r1, "Classify", "FailedToBuildCrate")]
       /\ UNCHANGED <<cwd, files, builds, faults>>
       /\ UNCHANGED ivars

\* ------------------------------------------------------------------------
\* Metadata Ingestor: text functions
\* ------------------------------------------------------------------------

UpperChars == <<"A", "B", "C", "D", "E", "F", "G", "H", "I", "J", "K", "L", "M",
                "N", "O", "P", "Q", "R", "S", "T", "U", "V", "W", "X", "Y", "Z">>
LowerChars == <<"a", "b", "c", "d", "e", "f", "g", "h", "i", "j", "k", "l", "m",
                "n", "o", "p", "q", "r", "s", "t", "u", "v", "w", "x", "y", "z">>
Digits == {"0", "1", "2", "3", "4", "5", "6", "7", "8", "9"}

IsUpper(c) == \E k \in 1..26 : UpperChars[k] = c
ToLower(c) == IF IsUpper(c) THEN LowerChars[CHOOSE k \in 1..26 : UpperChars[k] = c] ELSE c
IsLowerOrDigit(c) == c \in Digits \/ \E k \in 1..26 : LowerChars[k] = c

\* the character loop of slugify: letters and digits are kept in lower case,
\* every run of other characters becomes one "-", and none leads the slug
RECURSIVE SlugLoop(_, _, _)
SlugLoop(s, acc, prev_is_dash) ==
    IF s = <<>> THEN acc
    ELSE IF IsUpper(Head(s)) \/ IsLowerOrDigit(Head(s))
    THEN SlugLoop(Tail(s), Append(acc, ToLower(Head(s))), FALSE)
    ELSE IF prev_is_dash THEN SlugLoop(Tail(s), acc, TRUE)
    ELSE SlugLoop(Tail(s), Append(acc, "-"), TRUE)

\* slug::slugify; a trailing "-" is removed
slugify(s) ==
    LET r == SlugLoop(s, <<>>, TRUE)
    IN IF r # <<>> /\ r[Len(r)] = "-" THEN SubSeq(r, 1, Len(r) - 1) ELSE r

\* str::trim
RECURSIVE TrimStart(_)
TrimStart(s) == IF s # <<>> /\ Head(s) = " " THEN TrimStart(Tail(s)) ELSE s
trim(s) == Reverse(TrimStart(Reverse(TrimStart(s))))

\* the length of the longest prefix of s made of characters of set cs
RECURSIVE PrefixLen(_, _)
PrefixLen(s, cs) ==
    IF s # <<>> /\ Head(s) \in cs THEN 1 + PrefixLen(Tail(s), cs) ELSE 0

Drop(s, n) == SubSeq(s, n + 1, Len(s))

\* a pattern that demands the bracketed part, ^([^><]+)<+(.*?)>*$: an author
\* string without an email no longer matches
author_captures_email_required(author) ==
    LET g1len == CHOOSE n \in 0..Len(author) :
                    /\ \A k \in 1..n : author[k] \notin {"<", ">"}
                    /\ n < Len(author) => author[n + 1] \in {"<", ">"}
        rest1 == Drop(author, g1len)
        rest2 == Drop(rest1, PrefixLen(rest1, {"<"}))
        g2 == Reverse(Drop(Reverse(rest2), PrefixLen(Reverse(rest2), {">"})))
    IN IF g1len = 0 \/ g1len = Len(author) THEN None
       ELSE Some([name |-> SubSeq(author, 1, g1len), email |-> g2])

\* author_capture_re = ^([^><]+)<*(.*?)>*$ applied to an author string:
\* None when it does not match, else the captures 1 and 2.  Group 1 is the
\* longest prefix without '<' and '>' and must not be empty; then every '<'
\* that follows is skipped; group 2 is what remains without its trailing '>'s.
author_captures(author) ==
    LET g1len == CHOOSE n \in 0..Len(author) :
                    /\ \A k \in 1..n : author[k] \notin {"<", ">"}
                    /\ n < Len(author) => author[n + 1] \in {"<", ">"}
        rest1 == Drop(author, g1len)
        rest2 == Drop(rest1, PrefixLen(rest1, {"<"}))
        g2 == Reverse(Drop(Reverse(rest2), PrefixLen(Reverse(rest2), {">"})))
    IN IF g1len = 0 THEN None
       ELSE Some([name |-> SubSeq(author, 1, g1len), email |-> g2])


\* ------------------------------------------------------------------------
\* The relational store (db.rs, create_tables)
\* ------------------------------------------------------------------------

\* The tables are sequences of rows in insertion order; seq holds the last
\* value handed out by each SERIAL id column.
EmptyDb ==
    [crates |-> <<>>, releases |-> <<>>, keywords |-> <<>>, keyword_rels |-> <<>>,
     authors |-> <<>>, author_rels |-> <<>>, owners |-> <<>>, owner_rels |-> <<>>,
     seq |-> [crates |-> 0, releases |-> 0, keywords |-> 0, authors |-> 0, owners |-> 0]]

\* the rows of a table that satisfy a condition, in table order
SelectRows(table, Cond(_)) == SelectSeq(table, Cond)

\* An INSERT into a table with a SERIAL id: the id is drawn from the
\* sequence, and the row is stored unless a UNIQUE constraint rejects it.
InsertSerial(d, table, row, violates) ==
    LET id == d.seq[table] + 1
        d1 == [d EXCEPT !.seq[table] = id]
    IN IF violates
       THEN [ok |-> FALSE, db |-> d1, id |-> 0]
       ELSE [ok |-> TRUE,
             db |-> [d1 EXCEPT ![table] = Append(@, [row EXCEPT !.id = id])],
             id |-> id]

\* crates: name text UNIQUE NOT NULL, versions JSON DEFAULT '[]'
CratesNameUnique(d, name) == \E k \in 1..Len(d.crates) : d.crates[k].name = name

\* "SELECT id FROM crates WHERE name = $1"
SelectCrate(d, name) == SelectRows(d.crates, LAMBDA row : row.name = name)

\* "INSERT INTO crates (name) VALUES ($1) RETURNING id"
InsertCrate(d, name) ==
    InsertSerial(d, "crates", [id |-> 0, name |-> name, versions |-> <<>>],
                 CratesNameUnique(d, name))

\* releases: UNIQUE (crate_id, version)
ReleasesUnique(d, crate_id, version) ==
    \E k \in 1..Len(d.releases) :
        d.releases[k].crate_id = crate_id /\ d.releases[k].version = version

\* "SELECT id FROM releases WHERE crate_id = $1 AND version = $2"
SelectRelease(d, crate_id, version) ==
    SelectRows(d.releases, LAMBDA row : row.crate_id = crate_id /\ row.version = version)

\* "INSERT INTO releases (...) VALUES (...) RETURNING id"; fields holds the
\* columns other than id, crate_id and version
InsertRelease(d, crate_id, version, fields) ==
    InsertSerial(d, "releases",
                 [id |-> 0, crate_id |-> crate_id, version |-> version, fields |-> fields],
                 ReleasesUnique(d, crate_id, version))

\* an UPDATE that leaves the row as it is
UpdateReleaseKeepsRow(d, crate_id, version, fields) == d

\* "UPDATE releases SET ... WHERE crate_id = $1 AND version = $2"
UpdateRelease(d, crate_id, version, fields) ==
    [d EXCEPT !.releases =
        [k \in 1..Len(@) |->
            IF @[k].crate_id = crate_id /\ @[k].version = version
            THEN [@[k] EXCEPT !.fields = fields]
            ELSE @[k]]]

\* the keywords table as it would be without UNIQUE on slug
KeywordsSlugNotUnique(d, slug) == FALSE

\* keywords: slug TEXT NOT NULL UNIQUE
KeywordsSlugUnique(d, slug) == \E k \in 1..Len(d.keywords) : d.keywords[k].slug = slug

\* "SELECT id FROM keywords WHERE slug = $1"
SelectKeyword(d, slug) == SelectRows(d.keywords, LAMBDA row : row.slug = slug)

\* "INSERT INTO keywords (name, slug) VALUES ($1, $2) RETURNING id"
InsertKeyword(d, name, slug) ==
    InsertSerial(d, "keywords", [id |-> 0, name |-> name, slug |-> slug],
                 KeywordsSlugUnique(d, slug))

\* authors: slug TEXT UNIQUE NOT NULL
AuthorsSlugUnique(d, slug) == \E k \in 1..Len(d.authors) : d.authors[k].slug = slug

\* "SELECT id FROM authors WHERE slug = $1"
SelectAuthor(d, slug) == SelectRows(d.authors, LAMBDA row : row.slug = slug)

\* "INSERT INTO authors (name, email, slug) VALUES ($1, $2, $3) RETURNING id"
InsertAuthor(d, name, email, slug) ==
    InsertSerial(d, "authors", [id |-> 0, name |-> name, email |-> email, slug |-> slug],
                 AuthorsSlugUnique(d, slug))

\* owners: login TEXT NOT NULL UNIQUE, slug TEXT NOT NULL UNIQUE
OwnersUnique(d, login, slug) ==
    \E k \in 1..Len(d.owners) : d.owners[k].login = login \/ d.owners[k].slug = slug

\* "SELECT id FROM owners WHERE login = $1"
SelectOwner(d, login) == SelectRows(d.owners, LAMBDA row : row.login = login)

\* "INSERT INTO owners (login, slug, avatar, name, email) VALUES (...) RETURNING id"
InsertOwner(d, login, slug, name) ==
    InsertSerial(d, "owners", [id |-> 0, login |-> login, slug |-> slug, name |-> name],
                 OwnersUnique(d, login, slug))

\* the relationship tables as they would be without their UNIQUE constraints
RelUniqueMissing(rels, pair) == FALSE

\* keyword_rels UNIQUE(rid, kid), author_rels UNIQUE(rid, aid),
\* owner_rels UNIQUE(cid, oid)
RelUnique(rels, pair) == \E k \in 1..Len(rels) : rels[k] = pair

\* "INSERT INTO <table> (..) VALUES ($1, $2)" on a relationship table
InsertRel(d, table, pair) ==
    IF RelUnique(d[table], pair)
    THEN [ok |-> FALSE, db |-> d]
    ELSE [ok |-> TRUE, db |-> [d EXCEPT ![table] = Append(@, pair)]]

\* "SELECT versions FROM crates WHERE id = $1"
SelectVersions(d, crate_id) == SelectRows(d.crates, LAMBDA row : row.id = crate_id)

\* "UPDATE crates SET versions = $1 WHERE id = $2"
UpdateVersions(d, versions, crate_id) ==
    [d EXCEPT !.crates =
        [k \in 1..Len(@) |->
            IF @[k].id = crate_id THEN [@[k] EXCEPT !.versions = versions] ELSE @[k]]]

\* the version list update as it would be without the search for the version
append_version_always(versions_array, version) == Append(versions_array, version)

\* the versions array with version pushed unless an element equals it
append_version(versions_array, version) ==
    IF \E k \in 1..Len(versions_array) : versions_array[k] = version
    THEN versions_array
    ELSE Append(versions_array, version)


\* ------------------------------------------------------------------------
\* Metadata Ingestor: external inputs
\* ------------------------------------------------------------------------

\* number of add_crate_into_database calls in a behaviour
MaxIngests == 3

Ingestors == {1}

\* the packages add_crate_into_database is called for
IngestCrates == {Crate(Str1("a"), <<V11, V10>>), Crate(Str1("b"), <<V10>>)}

Text3(a, b, c) == <<a, b, c>>

\* What info_from_path returns for the source tree of a version: the
\* manifest's version, keywords and authors; metadata stands for the other
\* manifest fields stored on the release row (license, urls, descriptions,
\* readme, rustdoc, dependencies).  manifest names the set of packages
\* published: in "m1" two keywords of a version share a slug and the first
\* author string does not match the author pattern; in "stale" the tree found
\* for every version is that of the oldest version of the package, so the
\* version its manifest declares is not always versions[version_index].
CrateInfo(manifest, crte, version_index) ==
    IF manifest = "m1"
    THEN [version |-> At(crte.versions, version_index),
          keywords |-> IF version_index = 0
                       THEN << Text3("A", " ", "b"), Text3("a", "-", "b") >>
                       ELSE << Text3("a", "-", "b"), Str1("c") >>,
          authors |-> << Text3("<", "e", ">"),
                         <<"J", " ", "D", " ", "<", "j", "@", "e", ">">>,
                         Str1("K") >>,
          metadata |-> 1]
    ELSE IF manifest = "stale"
    THEN [version |-> At(crte.versions, Len(crte.versions) - 1),
          keywords |-> << Str1("c") >>,
          authors |-> << Str1("K") >>,
          metadata |-> 3]
    ELSE [version |-> At(crte.versions, version_index),
          keywords |-> << Str1("c") >>,
          authors |-> << Str1("K") >>,
          metadata |-> 2]

\* whether the source tree of the packages has an examples directory
SourceHasExamples(manifest) == manifest = "m1"

\* One element of the "versions" array of the registry: an object with
\* "num", "created_at", "yanked" and "downloads", or a value that is not an
\* object.
RegistryVersion(num) ==
    [isobj |-> TRUE, num |-> Some(num), created_at |-> Some("t"),
     yanked |-> Some(FALSE), downloads |-> Some(7)]

\* an element of the "versions" array with its own values
RegistryEntry(num, created_at, yanked, downloads) ==
    [isobj |-> TRUE, num |-> Some(num), created_at |-> Some(created_at),
     yanked |-> Some(yanked), downloads |-> Some(downloads)]

\* a "versions" array in which 1.10 comes before 1.1, and 1.1 and 1.0 appear
\* twice with different values
RegistryVersionsDup ==
    << RegistryEntry(<<"1", ".", "1", "0">>, "p", TRUE, 1),
       RegistryEntry(V11, "t1", TRUE, 3),
       RegistryEntry(V10, "s1", FALSE, 4),
       RegistryEntry(V11, "t0", FALSE, 9),
       RegistryEntry(V10, "s0", TRUE, 8) >>

\* the body of GET /crates/{name}/versions, by the kind of response
RegistryVersions(reg) ==
    IF reg = "match" THEN << RegistryVersion(V20), RegistryVersion(V11), RegistryVersion(V10) >>
    ELSE IF reg = "nomatch" THEN << RegistryVersion(V20) >>
    ELSE IF reg = "dup" THEN RegistryVersionsDup
    ELSE << [RegistryVersion(V20) EXCEPT !.isobj = FALSE],
            RegistryVersion(V11), RegistryVersion(V10) >>

\* the "users" array of GET /crates/{name}/owners
RegistryOwner(login, name) == [login |-> login, name |-> name]
RegistryOwners ==
    << RegistryOwner(Str1("x"), Text3("X", " ", "y")),
       RegistryOwner(<<>>, Str1("z")),
       RegistryOwner(Str1("w"), Str1("W")) >>

\* a "users" array in which two owners with different logins have names
\* with the same slug
RegistryOwnersSameSlug ==
    << RegistryOwner(Str1("x"), Text3("X", " ", "y")),
       RegistryOwner(<<>>, Str1("z")),
       RegistryOwner(Str1("v"), Text3("x", "-", "y")) >>

\* The external inputs of an ingestion:
\*   synced    a synced source copy exists under docbuilder.sources_path
\*   manifest  "m1", "m2", "stale", or "bad" (the manifest parser rejects the
\*             package)
\*   reg       the versions response: "unreachable", "badjson" (not JSON),
\*             "noarray" (no versions array), "nonobj", "nomatch", "match",
\*             "dup" (the array RegistryVersionsDup)
\*   owners    the owners response: "unreachable", "badjson", "nousers", "users",
\*             "sameslug" (the users array RegistryOwnersSameSlug)
\*   log       the build log of the version exists
\*   doc       0: no documentation directory, 1: the directory exists,
\*             2: it also holds the documentation of the manifest's target
BaseWorld ==
    [synced |-> TRUE, manifest |-> "m1", reg |-> "match", owners |-> "users",
     log |-> TRUE, doc |-> 2]

Worlds ==
    {[BaseWorld EXCEPT !.log = l, !.doc = d] : l \in BOOLEAN, d \in 0..2}
    \cup {[BaseWorld EXCEPT !.reg = r] :
            r \in {"unreachable", "badjson", "noarray", "nonobj", "nomatch", "match",
                   "dup"}}
    \cup {[BaseWorld EXCEPT !.manifest = m, !.synced = y] :
            m \in {"m1", "m2", "bad"}, y \in BOOLEAN}
    \cup {[BaseWorld EXCEPT !.owners = o] :
            o \in {"unreachable", "badjson", "nousers", "users", "sameslug"}}

\* the external inputs in which the manifest of the source tree declares
\* another version than the one the tree was fetched or synced for
StaleWorlds ==
    {[BaseWorld EXCEPT !.manifest = "stale", !.synced = y, !.reg = r] :
        y \in BOOLEAN, r \in {"match", "dup"}}

\* docbuilder.sources_path/{name}/{version}
SourcePath(crte, version_index) ==
    <<Str1("s"), crte.name, At(crte.versions, version_index)>>

\* the synced source copies on disk
SyncedSources(w) ==
    IF ~w.synced THEN {}
    ELSE UNION {
           {SourcePath(c, i)} \cup
           (IF SourceHasExamples(w.manifest)
            THEN {SourcePath(c, i) \o <<Str1("examples")>>} ELSE {}) :
           <<c, i>> \in {<<c, i>> \in IngestCrates \X {0, 1} : i < Len(c.versions)}}

\* have_examples(path)
have_examples(fs, path) == (path \o <<Str1("examples")>>) \in fs

\* The loop over the registry's versions array from element k on: Ok with the
\* (release_time, yanked, downloads) of the first element whose "num" equals
\* version, all None when no element does; NotObject for a malformed element.
RECURSIVE RegistryVersionsLoop(_, _, _)
RegistryVersionsLoop(versions, k, version) ==
    IF k > Len(versions)
    THEN Ok([release_time |-> None, yanked |-> None, downloads |-> None])
    ELSE LET v == versions[k]
         IN IF ~v.isobj \/ v.num = None THEN Err("NotObject")
            ELSE IF v.num[1] = version
            THEN IF v.created_at = None \/ v.yanked = None \/ v.downloads = None
                 THEN Err("NotObject")
                 ELSE Ok([release_time |-> v.created_at, yanked |-> v.yanked,
                          downloads |-> v.downloads])
            ELSE RegistryVersionsLoop(versions, k + 1, version)

\* a lookup that takes the values of the first element of the array
\* whatever its "num"
registry_release_first_entry(reg, version) ==
    IF reg \in {"unreachable", "badjson"} THEN [ok |-> FALSE, err |-> "panic"]
    ELSE IF reg = "noarray" THEN Err("NotObject")
    ELSE LET v == RegistryVersions(reg)[1]
         IN IF ~v.isobj THEN Err("NotObject")
            ELSE Ok([release_time |-> v.created_at, yanked |-> v.yanked,
                     downloads |-> v.downloads])

\* the (release_time, yanked, downloads) block: the request or the decoding
\* of its body can panic (unwrap), a body without a versions array is NotObject
registry_release(reg, version) ==
    IF reg \in {"unreachable", "badjson"} THEN [ok |-> FALSE, err |-> "panic"]
    ELSE IF reg = "noarray" THEN Err("NotObject")
    ELSE RegistryVersionsLoop(RegistryVersions(reg), 1, version)

\* build_status as it would be if the documentation directory were not looked at
build_status_of_log_only(log_exists, doc_exists) == IF log_exists THEN 1 ELSE 0

\* build_status from the existence of the build log and of the
\* documentation directory
build_status_of(log_exists, doc_exists) ==
    IF log_exists /\ doc_exists THEN 1
    ELSE IF log_exists /\ ~doc_exists THEN -1
    ELSE 0

\* rustdoc_status from the existence of the target's documentation
rustdoc_status_of(target_doc_exists) == IF target_doc_exists THEN 1 ELSE 0


\* ------------------------------------------------------------------------
\* Metadata Ingestor: add_crate_into_database
\* ------------------------------------------------------------------------

NoCrateInfo == [version |-> <<>>, keywords |-> <<>>, authors |-> <<>>, metadata |-> 0]
NoRelease == [release_time |-> None, yanked |-> None, downloads |-> None]

\* steps numbers the stages of the function that have begun: 1 crate row,
\* 2 manifest, 3 registry versions, 4 statuses, 5 release row, 6 keywords,
\* 7 authors, 8 owners, 9 version list.  cause tells why a call failed:
\* "fault" (a rejected query or a failed external command), "input" (an
\* external input the code rejects), "constraint" (a UNIQUE violation).
IdleIngest ==
    [pc |-> "idle", crte |-> Crate(Str1("a"), <<V11, V10>>), version_index |-> 0,
     steps |-> {}, result |-> "none", error |-> "none", cause |-> "none",
     failed_step |-> 0,
     crate_id |-> 0, crate_info |-> NoCrateInfo, have_examples |-> FALSE,
     release |-> NoRelease, build_status |-> 0, rustdoc_status |-> 0,
     rows |-> <<>>, release_id |-> 0, k |-> 1, item_id |-> 0,
     versions |-> <<>>, rejected |-> 0, skipped |-> 0]

\* the function returns Err(error) in stage step
FailI(r, step, error, cause) ==
    [r EXCEPT !.pc = "done", !.result = "err", !.error = error, !.cause = cause,
              !.failed_step = step]

\* a panic (an unwrap of an Err or of a None) unwinds out of the function
PanicI(r, step) ==
    [r EXCEPT !.pc = "done", !.result = "panic", !.failed_step = step]

\* self.versions[version_index]
IngVersion(r) == At(r.crte.versions, r.version_index)

\* the arguments of a call
Job(r) == [crte |-> r.crte, version_index |-> r.version_index]

\* A call of add_crate_into_database(version_index, conn, docbuilder) begins.
IngestStart(i) ==
    /\ ing[i].pc \in {"idle", "done"}
    /\ ingests < MaxIngests
    /\ \E crte \in IngestCrates :
         \E version_index \in 0..(Len(crte.versions) - 1) :
            LET job == [crte |-> crte, version_index |-> version_index]
                repeats == /\ ing[i].pc = "done"
                           /\ ing[i].result \in {"err", "panic"}
                           /\ Job(ing[i]) = job
            IN /\ ing' = [ing EXCEPT ![i] =
                            [IdleIngest EXCEPT !.pc = "select_crate", !.crte = crte,
                                               !.version_index = version_index]]
               /\ db0' = IF repeats THEN db0 ELSE db
    /\ prev' = IF ing[i].pc = "done"
               THEN [job |-> Job(ing[i]), result |-> ing[i].result, db |-> db]
               ELSE prev
    /\ ingests' = ingests + 1
    /\ UNCHANGED <<cwd, files, bld, builds, rsv, faults, db, world>>

\* A query whose result the code checks with try! is rejected.  A statement
\* whose result the code discards (let _ =) is taken to be rejected by its
\* table's UNIQUE constraint only.
QueryFault(i, step) ==
    /\ CanFault
    /\ faults' = faults + 1
    /\ ing' = [ing EXCEPT ![i] = FailI(ing[i], step, "DbError", "fault")]
    /\ UNCHANGED <<cwd, files, bld, builds, rsv, db, world, ingests, prev, db0>>

\* 1: "SELECT id FROM crates WHERE name = $1"
IngSelectCrate(i) ==
    LET r == [ing[i] EXCEPT !.steps = @ \cup {1}]
        rows == SelectCrate(db, r.crte.name)
    IN /\ ing[i].pc = "select_crate"
       /\ \/ /\ ing' = [ing EXCEPT ![i] =
                          IF Len(rows) = 0
                          THEN [r EXCEPT !.pc = "insert_crate"]
                          ELSE [r EXCEPT !.pc = "source", !.crate_id = rows[1].id]]
             /\ UNCHANGED <<cwd, files, bld, builds, rsv, faults, db, world, ingests, prev, db0>>
          \/ QueryFault(i, 1)

\* 1: "INSERT INTO crates (name) VALUES ($1) RETURNING id"
IngInsertCrate(i) ==
    LET r == ing[i]
        q == InsertCrate(db, r.crte.name)
    IN /\ r.pc = "insert_crate"
       /\ \/ /\ db' = q.db
             /\ ing' = [ing EXCEPT ![i] =
                          IF q.ok THEN [r EXCEPT !.pc = "source", !.crate_id = q.id]
                          ELSE FailI(r, 1, "DbError", "constraint")]
             /\ UNCHANGED <<cwd, files, bld, builds, rsv, faults, world, ingests, prev, db0>>
          \/ QueryFault(i, 1)

\* 2: the synced source copy is read when it exists, else the archive is
\* fetched
IngSource(i) ==
    LET r == [ing[i] EXCEPT !.steps = @ \cup {2}]
        path == SourcePath(r.crte, r.version_index)
    IN /\ ing[i].pc = "source"
       /\ ing' = [ing EXCEPT ![i] =
             IF path \in files
             THEN IF world.manifest = "bad"
                  THEN FailI(r, 2, "ManifestError", "input")
                  ELSE [r EXCEPT !.pc = "registry",
                                 !.crate_info = CrateInfo(world.manifest, r.crte,
                                                          r.version_index),
                                 !.have_examples = have_examples(files, path)]
             ELSE [r EXCEPT !.pc = "download"]]
       /\ UNCHANGED <<cwd, files, bld, builds, rsv, faults, db, world, ingests, prev, db0>>

\* 2: self.download_crate(version_index)
IngDownload(i) ==
    LET r == ing[i]
    IN /\ r.pc = "download"
       /\ \/ /\ files' = files \cup {Abs(<<crate_file_name(r.crte, r.version_index)>>)}
             /\ ing' = [ing EXCEPT ![i] = [r EXCEPT !.pc = "extract"]]
             /\ UNCHANGED faults
          \/ /\ CanFault
             /\ faults' = faults + 1
             /\ \/ ing' = [ing EXCEPT ![i] = FailI(r, 2, "CommandError", "fault")]
                \/ ing' = [ing EXCEPT ![i] = PanicI(r, 2)]
             /\ UNCHANGED files
       /\ UNCHANGED <<cwd, bld, builds, rsv, db, world, ingests, prev, db0>>

\* 2: self.extract_crate(version_index); the archive holds the source tree
IngExtract(i) ==
    LET r == ing[i]
        archive == Abs(<<crate_file_name(r.crte, r.version_index)>>)
        dir == Abs(<<canonical_name(r.crte, r.version_index)>>)
    IN /\ r.pc = "extract"
       /\ \/ /\ archive \in files
             /\ files' = files \cup {dir, dir \o <<CargoTomlName>>} \cup
                         (IF SourceHasExamples(world.manifest)
                          THEN {dir \o <<Str1("examples")>>} ELSE {})
             /\ ing' = [ing EXCEPT ![i] = [r EXCEPT !.pc = "info"]]
             /\ UNCHANGED faults
          \/ /\ archive \notin files
             /\ ing' = [ing EXCEPT ![i] = FailI(r, 2, "CommandError", "fault")]
             /\ UNCHANGED <<files, faults>>
          \/ /\ CanFault
             /\ faults' = faults + 1
             /\ \/ ing' = [ing EXCEPT ![i] = FailI(r, 2, "CommandError", "fault")]
                \/ ing' = [ing EXCEPT ![i] = PanicI(r, 2)]
             /\ UNCHANGED files
       /\ UNCHANGED <<cwd, bld, builds, rsv, db, world, ingests, prev, db0>>

\* 2: info_from_path on the extracted directory
IngInfo(i) ==
    LET r == ing[i]
        path == cwd \o <<canonical_name(r.crte, r.version_index)>>
    IN /\ r.pc = "info"
       /\ ing' = [ing EXCEPT ![i] =
             IF world.manifest = "bad" \/ (path \o <<CargoTomlName>>) \notin files
             THEN FailI(r, 2, "ManifestError", "input")
             ELSE [r EXCEPT !.pc = "rm_file",
                            !.crate_info = CrateInfo(world.manifest, r.crte,
                                                     r.version_index)]]
       /\ UNCHANGED <<cwd, files, bld, builds, rsv, faults, db, world, ingests, prev, db0>>

\* 2: self.remove_crate_file(version_index)
IngRemoveCrateFile(i) ==
    LET r == ing[i]
        path == Abs(<<crate_file_name(r.crte, r.version_index)>>)
    IN /\ r.pc = "rm_file"
       /\ \/ /\ files' = files \ {path}
             /\ ing' = [ing EXCEPT ![i] = [r EXCEPT !.pc = "rm_dir"]]
             /\ UNCHANGED faults
          \/ /\ path \in files
             /\ CanFault
             /\ faults' = faults + 1
             /\ ing' = [ing EXCEPT ![i] = FailI(r, 2, "DocBuilderError", "fault")]
             /\ UNCHANGED files
       /\ UNCHANGED <<cwd, bld, builds, rsv, db, world, ingests, prev, db0>>

\* 2: self.remove_build_dir_for_crate(version_index), and then
\* have_examples(&path) on the directory that has just been removed
IngRemoveBuildDir(i) ==
    LET r == ing[i]
        path == Abs(<<canonical_name(r.crte, r.version_index)>>)
    IN /\ r.pc = "rm_dir"
       /\ \/ /\ files' = remove_dir_all(files, path)
             /\ ing' = [ing EXCEPT ![i] =
                          [r EXCEPT !.pc = "registry",
                                    !.have_examples = have_examples(files', path)]]
             /\ UNCHANGED faults
          \/ /\ path \in files
             /\ CanFault
             /\ faults' = faults + 1
             /\ ing' = [ing EXCEPT ![i] = FailI(r, 2, "DocBuilderError", "fault")]
             /\ UNCHANGED files
       /\ UNCHANGED <<cwd, bld, builds, rsv, db, world, ingests, prev, db0>>

\* 3: the registry's versions are requested and searched for the version
IngRegistry(i) ==
    LET r == [ing[i] EXCEPT !.steps = @ \cup {3}]
        q == registry_release(world.reg, IngVersion(r))
    IN /\ ing[i].pc = "registry"
       /\ ing' = [ing EXCEPT ![i] =
             IF q.ok THEN [r EXCEPT !.pc = "status", !.release = q.val]
             ELSE IF q.err = "panic" THEN PanicI(r, 3)
             ELSE FailI(r, 3, q.err, "input")]
       /\ UNCHANGED <<cwd, files, bld, builds, rsv, faults, db, world, ingests, prev, db0>>

\* 4: build_status and rustdoc_status from what exists on disk
IngStatus(i) ==
    LET r == [ing[i] EXCEPT !.steps = @ \cup {4}]
    IN /\ ing[i].pc = "status"
       /\ ing' = [ing EXCEPT ![i] =
             [r EXCEPT !.pc = "select_release",
                       !.build_status = build_status_of(world.log, world.doc >= 1),
                       !.rustdoc_status = rustdoc_status_of(world.doc = 2)]]
       /\ UNCHANGED <<cwd, files, bld, builds, rsv, faults, db, world, ingests, prev, db0>>


\* the columns of the release row other than id, crate_id and version
ReleaseFields(r) ==
    [release_time |-> r.release.release_time, yanked |-> r.release.yanked,
     downloads |-> r.release.downloads, build_status |-> r.build_status,
     rustdoc_status |-> r.rustdoc_status, test_status |-> 0,
     metadata |-> r.crate_info.metadata, authors |-> r.crate_info.authors,
     keywords |-> r.crate_info.keywords, have_examples |-> r.have_examples]

\* the head of the owners block: the request is made after the authors loop
OwnersHead(r) == [r EXCEPT !.pc = "owners_fetch"]

\* the head of the authors loop: author strings that the pattern does not
\* match are passed over
RECURSIVE AuthorsHead(_)
AuthorsHead(r) ==
    LET r7 == [r EXCEPT !.steps = @ \cup {7}]
    IN IF r.k > Len(r.crate_info.authors) THEN OwnersHead([r7 EXCEPT !.k = 1])
       ELSE IF author_captures(r.crate_info.authors[r.k]) = None
       THEN AuthorsHead([r7 EXCEPT !.k = @ + 1, !.skipped = @ + 1])
       ELSE [r7 EXCEPT !.pc = "select_author"]

\* the head of the keywords loop
KeywordsHead(r) ==
    LET r6 == [r EXCEPT !.steps = @ \cup {6}]
    IN IF r.k > Len(r.crate_info.keywords) THEN AuthorsHead([r6 EXCEPT !.k = 1])
       ELSE [r6 EXCEPT !.pc = "select_keyword"]

\* 5: "SELECT id FROM releases WHERE crate_id = $1 AND version = $2"
IngSelectRelease(i) ==
    LET r == [ing[i] EXCEPT !.steps = @ \cup {5}]
        rows == SelectRelease(db, r.crate_id, r.crate_info.version)
    IN /\ ing[i].pc = "select_release"
       /\ \/ /\ ing' = [ing EXCEPT ![i] =
                          [r EXCEPT !.rows = rows,
                                    !.pc = IF Len(rows) = 0 THEN "insert_release"
                                           ELSE "update_release"]]
             /\ UNCHANGED <<cwd, files, bld, builds, rsv, faults, db, world, ingests, prev, db0>>
          \/ QueryFault(i, 5)

\* 5: "INSERT INTO releases (...) VALUES (...) RETURNING id"
IngInsertRelease(i) ==
    LET r == ing[i]
        q == InsertRelease(db, r.crate_id, r.crate_info.version, ReleaseFields(r))
    IN /\ r.pc = "insert_release"
       /\ \/ /\ db' = q.db
             /\ ing' = [ing EXCEPT ![i] =
                          IF q.ok THEN KeywordsHead([r EXCEPT !.release_id = q.id, !.k = 1])
                          ELSE FailI(r, 5, "DbError", "constraint")]
             /\ UNCHANGED <<cwd, files, bld, builds, rsv, faults, world, ingests, prev, db0>>
          \/ QueryFault(i, 5)

\* the update branch as it would be if it took the id from the row sequence
\* instead of the row the SELECT returned
IngUpdateReleaseFreshId(i) ==
    LET r == ing[i]
    IN /\ r.pc = "update_release"
       /\ \/ /\ db' = UpdateRelease(db, r.crate_id, r.crate_info.version, ReleaseFields(r))
             /\ ing' = [ing EXCEPT ![i] =
                          KeywordsHead([r EXCEPT !.release_id = db.seq.releases + 1,
                                                 !.k = 1])]
             /\ UNCHANGED <<cwd, files, bld, builds, rsv, faults, world, ingests, prev, db0>>
          \/ QueryFault(i, 5)

\* 5: "UPDATE releases SET ... WHERE crate_id = $1 AND version = $2"; the id
\* is the one the SELECT returned
IngUpdateRelease(i) ==
    LET r == ing[i]
    IN /\ r.pc = "update_release"
       /\ \/ /\ db' = UpdateRelease(db, r.crate_id, r.crate_info.version, ReleaseFields(r))
             /\ ing' = [ing EXCEPT ![i] =
                          KeywordsHead([r EXCEPT !.release_id = r.rows[1].id, !.k = 1])]
             /\ UNCHANGED <<cwd, files, bld, builds, rsv, faults, world, ingests, prev, db0>>
          \/ QueryFault(i, 5)

\* 6: "SELECT id FROM keywords WHERE slug = $1"
IngSelectKeyword(i) ==
    LET r == ing[i]
        rows == SelectKeyword(db, slugify(r.crate_info.keywords[r.k]))
    IN /\ r.pc = "select_keyword"
       /\ \/ /\ ing' = [ing EXCEPT ![i] =
                          IF Len(rows) > 0
                          THEN [r EXCEPT !.pc = "rel_keyword", !.item_id = rows[1].id]
                          ELSE [r EXCEPT !.pc = "insert_keyword"]]
             /\ UNCHANGED <<cwd, files, bld, builds, rsv, faults, db, world, ingests, prev, db0>>
          \/ QueryFault(i, 6)

\* 6: "INSERT INTO keywords (name, slug) VALUES ($1, $2) RETURNING id"
IngInsertKeyword(i) ==
    LET r == ing[i]
        keyword == r.crate_info.keywords[r.k]
        q == InsertKeyword(db, keyword, slugify(keyword))
    IN /\ r.pc = "insert_keyword"
       /\ \/ /\ db' = q.db
             /\ ing' = [ing EXCEPT ![i] =
                          IF q.ok THEN [r EXCEPT !.pc = "rel_keyword", !.item_id = q.id]
                          ELSE FailI(r, 6, "DbError", "constraint")]
             /\ UNCHANGED <<cwd, files, bld, builds, rsv, faults, world, ingests, prev, db0>>
          \/ QueryFault(i, 6)

\* the relationship insert as it would be with try! instead of let _ =
IngKeywordRelChecked(i) ==
    LET r == ing[i]
        q == InsertRel(db, "keyword_rels", <<r.release_id, r.item_id>>)
    IN /\ r.pc = "rel_keyword"
       /\ db' = q.db
       /\ ing' = [ing EXCEPT ![i] =
                    IF q.ok THEN KeywordsHead([r EXCEPT !.k = @ + 1])
                    ELSE FailI([r EXCEPT !.rejected = @ + 1], 6, "DbError", "relationship")]
       /\ UNCHANGED <<cwd, files, bld, builds, rsv, faults, world, ingests, prev, db0>>

\* 6: "INSERT INTO keyword_rels (rid, kid) VALUES ($1, $2)"; the result is
\* discarded (let _ =)
IngKeywordRel(i) ==
    LET r == ing[i]
        q == InsertRel(db, "keyword_rels", <<r.release_id, r.item_id>>)
    IN /\ r.pc = "rel_keyword"
       /\ db' = q.db
       /\ ing' = [ing EXCEPT ![i] =
                    KeywordsHead([r EXCEPT !.k = @ + 1,
                                           !.rejected = IF q.ok THEN @ ELSE @ + 1])]
       /\ UNCHANGED <<cwd, files, bld, builds, rsv, faults, world, ingests, prev, db0>>

\* the name and email captured from the author string the loop is at
CurAuthor(r) ==
    LET c == author_captures(r.crate_info.authors[r.k])[1]
    IN [name |-> trim(c.name), email |-> trim(c.email)]

\* 7: "SELECT id FROM authors WHERE slug = $1"
IngSelectAuthor(i) ==
    LET r == ing[i]
        rows == SelectAuthor(db, slugify(CurAuthor(r).name))
    IN /\ r.pc = "select_author"
       /\ \/ /\ ing' = [ing EXCEPT ![i] =
                          IF Len(rows) > 0
                          THEN [r EXCEPT !.pc = "rel_author", !.item_id = rows[1].id]
                          ELSE [r EXCEPT !.pc = "insert_author"]]
             /\ UNCHANGED <<cwd, files, bld, builds, rsv, faults, db, world, ingests, prev, db0>>
          \/ QueryFault(i, 7)

\* 7: "INSERT INTO authors (name, email, slug) VALUES ($1, $2, $3) RETURNING id"
IngInsertAuthor(i) ==
    LET r == ing[i]
        a == CurAuthor(r)
        q == InsertAuthor(db, a.name, a.email, slugify(a.name))
    IN /\ r.pc = "insert_author"
       /\ \/ /\ db' = q.db
             /\ ing' = [ing EXCEPT ![i] =
                          IF q.ok THEN [r EXCEPT !.pc = "rel_author", !.item_id = q.id]
                          ELSE FailI(r, 7, "DbError", "constraint")]
             /\ UNCHANGED <<cwd, files, bld, builds, rsv, faults, world, ingests, prev, db0>>
          \/ QueryFault(i, 7)

\* 7: "INSERT INTO author_rels (rid, aid) VALUES ($1, $2)"; result discarded
IngAuthorRel(i) ==
    LET r == ing[i]
        q == InsertRel(db, "author_rels", <<r.release_id, r.item_id>>)
    IN /\ r.pc = "rel_author"
       /\ db' = q.db
       /\ ing' = [ing EXCEPT ![i] =
                    AuthorsHead([r EXCEPT !.k = @ + 1,
                                          !.rejected = IF q.ok THEN @ ELSE @ + 1])]
       /\ UNCHANGED <<cwd, files, bld, builds, rsv, faults, world, ingests, prev, db0>>

\* the owners the loop iterates over: the "users" array when there is one
OwnersOf(owners) ==
    IF owners = "users" THEN RegistryOwners
    ELSE IF owners = "sameslug" THEN RegistryOwnersSameSlug
    ELSE <<>>

\* a loop that passes no owner over
login_is_empty_never(owner) == FALSE

\* login.is_empty()
login_is_empty(owner) == owner.login = <<>>

\* the head of the owners loop: owners with an empty login are passed over;
\* after the loop comes the version list
RECURSIVE OwnersLoopHead(_)
OwnersLoopHead(r) ==
    IF r.k > Len(OwnersOf(world.owners)) THEN [r EXCEPT !.pc = "select_versions"]
    ELSE IF login_is_empty(OwnersOf(world.owners)[r.k])
    THEN OwnersLoopHead([r EXCEPT !.k = @ + 1])
    ELSE [r EXCEPT !.pc = "select_owner"]

\* 8: the owners are requested; the request panics when it fails (unwrap),
\* a body that is not JSON is a ParseError
IngOwnersFetch(i) ==
    LET r == [ing[i] EXCEPT !.steps = @ \cup {8}]
    IN /\ ing[i].pc = "owners_fetch"
       /\ ing' = [ing EXCEPT ![i] =
             IF world.owners = "unreachable" THEN PanicI(r, 8)
             ELSE IF world.owners = "badjson" THEN FailI(r, 8, "ParseError", "input")
             ELSE OwnersLoopHead([r EXCEPT !.k = 1])]
       /\ UNCHANGED <<cwd, files, bld, builds, rsv, faults, db, world, ingests, prev, db0>>

CurOwner(r) == OwnersOf(world.owners)[r.k]

\* 8: "SELECT id FROM owners WHERE login = $1"
IngSelectOwner(i) ==
    LET r == ing[i]
        rows == SelectOwner(db, CurOwner(r).login)
    IN /\ r.pc = "select_owner"
       /\ \/ /\ ing' = [ing EXCEPT ![i] =
                          IF Len(rows) > 0
                          THEN [r EXCEPT !.pc = "rel_owner", !.item_id = rows[1].id]
                          ELSE [r EXCEPT !.pc = "insert_owner"]]
             /\ UNCHANGED <<cwd, files, bld, builds, rsv, faults, db, world, ingests, prev, db0>>
          \/ QueryFault(i, 8)

\* 8: "INSERT INTO owners (login, slug, avatar, name, email) VALUES (...)"
IngInsertOwner(i) ==
    LET r == ing[i]
        o == CurOwner(r)
        q == InsertOwner(db, o.login, slugify(o.name), o.name)
    IN /\ r.pc = "insert_owner"
       /\ \/ /\ db' = q.db
             /\ ing' = [ing EXCEPT ![i] =
                          IF q.ok THEN [r EXCEPT !.pc = "rel_owner", !.item_id = q.id]
                          ELSE FailI(r, 8, "DbError", "constraint")]
             /\ UNCHANGED <<cwd, files, bld, builds, rsv, faults, world, ingests, prev, db0>>
          \/ QueryFault(i, 8)

\* 8: "INSERT INTO owner_rels (cid, oid) VALUES ($1, $2)"; result discarded
IngOwnerRel(i) ==
    LET r == ing[i]
        q == InsertRel(db, "owner_rels", <<r.crate_id, r.item_id>>)
    IN /\ r.pc = "rel_owner"
       /\ db' = q.db
       /\ ing' = [ing EXCEPT ![i] =
                    OwnersLoopHead([r EXCEPT !.k = @ + 1,
                                             !.rejected = IF q.ok THEN @ ELSE @ + 1])]
       /\ UNCHANGED <<cwd, files, bld, builds, rsv, faults, world, ingests, prev, db0>>

\* 9: "SELECT versions FROM crates WHERE id = $1"
IngSelectVersions(i) ==
    LET r == [ing[i] EXCEPT !.steps = @ \cup {9}]
        rows == SelectVersions(db, r.crate_id)
    IN /\ ing[i].pc = "select_versions"
       /\ \/ /\ ing' = [ing EXCEPT ![i] =
                          IF Len(rows) = 0 THEN PanicI(r, 9)
                          ELSE [r EXCEPT !.pc = "update_versions",
                                         !.versions = rows[1].versions]]
             /\ UNCHANGED <<cwd, files, bld, builds, rsv, faults, db, world, ingests, prev, db0>>
          \/ QueryFault(i, 9)

\* 9: the version is pushed unless found, then
\* "UPDATE crates SET versions = $1 WHERE id = $2" (result discarded) and Ok(())
IngUpdateVersions(i) ==
    LET r == ing[i]
    IN /\ r.pc = "update_versions"
       /\ db' = UpdateVersions(db, append_version(r.versions, IngVersion(r)), r.crate_id)
       /\ ing' = [ing EXCEPT ![i] = [r EXCEPT !.pc = "done", !.result = "ok"]]
       /\ UNCHANGED <<cwd, files, bld, builds, rsv, faults, world, ingests, prev, db0>>

\* ------------------------------------------------------------------------
\* add_crate_into_database from entry to Ok(()), as one function of the store
\* ------------------------------------------------------------------------

\* the keywords loop from keyword k on
RECURSIVE RunKeywords(_, _, _, _)
RunKeywords(d, keywords, k, release_id) ==
    IF k > Len(keywords) THEN d
    ELSE LET slug == slugify(keywords[k])
             rows == SelectKeyword(d, slug)
             q == InsertKeyword(d, keywords[k], slug)
             d1 == IF Len(rows) > 0 THEN d ELSE q.db
             keyword_id == IF Len(rows) > 0 THEN rows[1].id ELSE q.id
         IN RunKeywords(InsertRel(d1, "keyword_rels", <<release_id, keyword_id>>).db,
                        keywords, k + 1, release_id)

\* the authors loop from author k on
RECURSIVE RunAuthors(_, _, _, _)
RunAuthors(d, authors, k, release_id) ==
    IF k > Len(authors) THEN d
    ELSE IF author_captures(authors[k]) = None
    THEN RunAuthors(d, authors, k + 1, release_id)
    ELSE LET c == author_captures(authors[k])[1]
             slug == slugify(trim(c.name))
             rows == SelectAuthor(d, slug)
             q == InsertAuthor(d, trim(c.name), trim(c.email), slug)
             d1 == IF Len(rows) > 0 THEN d ELSE q.db
             author_id == IF Len(rows) > 0 THEN rows[1].id ELSE q.id
         IN RunAuthors(InsertRel(d1, "author_rels", <<release_id, author_id>>).db,
                       authors, k + 1, release_id)

\* the owners loop from owner k on
RECURSIVE RunOwners(_, _, _, _)
RunOwners(d, owners, k, crate_id) ==
    IF k > Len(owners) THEN d
    ELSE IF owners[k].login = <<>> THEN RunOwners(d, owners, k + 1, crate_id)
    ELSE LET rows == SelectOwner(d, owners[k].login)
             q == InsertOwner(d, owners[k].login, slugify(owners[k].name), owners[k].name)
             d1 == IF Len(rows) > 0 THEN d ELSE q.db
             owner_id == IF Len(rows) > 0 THEN rows[1].id ELSE q.id
         IN RunOwners(InsertRel(d1, "owner_rels", <<crate_id, owner_id>>).db,
                      owners, k + 1, crate_id)

\* The store an uninterrupted successful call leaves, starting from store d,
\* for inputs w that let the call succeed.
FullRun(d, crte, version_index, w) ==
    LET version == At(crte.versions, version_index)
        crows == SelectCrate(d, crte.name)
        cq == InsertCrate(d, crte.name)
        d1 == IF Len(crows) = 0 THEN cq.db ELSE d
        crate_id == IF Len(crows) = 0 THEN cq.id ELSE crows[1].id
        crate_info == CrateInfo(w.manifest, crte, version_index)
        examples == IF w.synced THEN SourceHasExamples(w.manifest) ELSE FALSE
        fields == [release_time |-> registry_release(w.reg, version).val.release_time,
                   yanked |-> registry_release(w.reg, version).val.yanked,
                   downloads |-> registry_release(w.reg, version).val.downloads,
                   build_status |-> build_status_of(w.log, w.doc >= 1),
                   rustdoc_status |-> rustdoc_status_of(w.doc = 2),
                   test_status |-> 0,
                   metadata |-> crate_info.metadata, authors |-> crate_info.authors,
                   keywords |-> crate_info.keywords, have_examples |-> examples]
        rrows == SelectRelease(d1, crate_id, crate_info.version)
        rq == InsertRelease(d1, crate_id, crate_info.version, fields)
        d2 == IF Len(rrows) = 0 THEN rq.db
              ELSE UpdateRelease(d1, crate_id, crate_info.version, fields)
        release_id == IF Len(rrows) = 0 THEN rq.id ELSE rrows[1].id
        d3 == RunKeywords(d2, crate_info.keywords, 1, release_id)
        d4 == RunAuthors(d3, crate_info.authors, 1, release_id)
        d5 == RunOwners(d4, OwnersOf(w.owners), 1, crate_id)
    IN UpdateVersions(d5, append_version(SelectVersions(d5, crate_id)[1].versions, version),
                      crate_id)

\* ------------------------------------------------------------------------
\* Index Resolver: its inputs and its calls
\* ------------------------------------------------------------------------

\* number of calls of the Index Resolver in a behaviour
MaxCalls == 3

V12 == <<"1", ".", "2">>
V1200 == <<"1", ".", "2", "0", ".", "0">>

\* sequences of length at most n over a set
SeqsUpTo(S, n) == UNION {[1..k -> S] : k \in 0..n}

\* index lines that parse_cargo_index_line rejects
BadLines ==
    { [json |-> "invalid"], [json |-> "nonobject"],
      [json |-> "object", name |-> None, vers |-> V10],
      [json |-> "object", name |-> Str1("d"), vers |-> None] }

\* the index file of a package with one line that is rejected
BadIndexFile(n, line) == [IndexFile(n, <<V10>>) EXCEPT !.lines = <<IndexLine(n, V10), line>>]

\* The index files from_cargo_index_file is called on: the files of package
\* d with up to three lines, files with a rejected line, and an unreadable one.
IndexFiles ==
    {IndexFile(Str1("d"), vs) : vs \in SeqsUpTo({V10, V11, V20}, 3)}
    \cup {BadIndexFile(Str1("d"), l) : l \in BadLines}
    \cup {[IndexFile(Str1("d"), <<V10>>) EXCEPT !.readable = FALSE]}

IndexRoot(es) == [IndexDir(Str1("i"), es) EXCEPT !.path = Str1("i")]

\* The index trees from_cargo_index_path searches: the mirrored index; one
\* whose package directory is named "b.git"; one where the file of d in the
\* first directory has a rejected line and a second file of d comes later;
\* one with a rejected line in a file at the top; one with an empty file;
\* one with a directory named like the package; one whose only file of d is
\* unreadable and lies in a directory; and a root that is a file.
IndexTrees ==
    { CratesIoIndex,
      IndexRoot(<< IndexDir(<<"b", ".", "g", "i", "t">>, << IndexFile(Str1("d"), <<V10>>) >>) >>),
      IndexRoot(<< IndexDir(Str1("1"), << BadIndexFile(Str1("d"), [json |-> "nonobject"]) >>),
                   IndexDir(Str1("2"), << IndexFile(Str1("d"), <<V20>>) >>) >>),
      IndexRoot(<< BadIndexFile(Str1("d"), [json |-> "invalid"]),
                   IndexDir(Str1("2"), << IndexFile(Str1("d"), <<V20>>) >>) >>),
      IndexRoot(<< IndexFile(Str1("e"), <<>>), IndexFile(Str1("d"), <<V10, V11>>) >>),
      IndexRoot(<< IndexDir(Str1("d"), << IndexFile(Str1("e"), <<V10>>) >>),
                   IndexDir(Str1("3"), << IndexDir(Str1("4"),
                                             << IndexFile(Str1("d"), <<V11>>) >>) >>) >>),
      IndexRoot(<< IndexDir(Str1("1"),
                      << [IndexFile(Str1("d"), <<V10>>) EXCEPT !.readable = FALSE] >>) >>),
      [IndexFile(Str1("i"), <<V10>>) EXCEPT !.path = Str1("i")] }

\* the names from_cargo_index_path is asked for
IndexNames == {Str1("d"), Str1("e"), Str1("u"), Str1("z"), ConfigJson}

\* the version lists Crate::new is called with
NewVersionLists == SeqsUpTo({V10, V12, V1200}, 2)

\* the version strings get_version_index is asked for
RequestedVersions == {V10, V11, V12, V1200, V20}

\* the prefixes version_starts_with is asked for
RequestedPrefixes == {<<"*">>, <<>>, Str1("1"), Str1("2"), V12, <<"1", ".", "2", "0">>}

NoCall == [op |-> "none", arg |-> <<>>, out |-> <<>>]

IdleResolver ==
    [tree |-> CratesIoIndex, has |-> FALSE, crte |-> Crate(<<>>, <<>>),
     calls |-> 0, last |-> NoCall, again |-> FALSE]

\* a call that returns a Result<Crate, CrateOpenError>: the Crate is kept
\* when it is Ok
Resolved(op, arg, out) ==
    [rsv EXCEPT !.calls = @ + 1,
                !.last = [op |-> op, arg |-> arg, out |-> out],
                !.again = FALSE,
                !.has = IF out.ok THEN TRUE ELSE @,
                !.crte = IF out.ok THEN out.val ELSE @]

\* a call on the Crate that is held; again records that it repeats the call
\* before it
Queried(op, arg, out) ==
    [rsv EXCEPT !.calls = @ + 1, !.last = [op |-> op, arg |-> arg, out |-> out],
                !.again = (rsv.last.op = op /\ rsv.last.arg = arg)]

RsvFrame == UNCHANGED <<cwd, files, bld, builds, faults, db, world, ing, ingests, prev, db0>>

\* Crate::from_cargo_index_path(name, path)
RsvFromIndexPath ==
    /\ rsv.calls < MaxCalls
    /\ \E name \in IndexNames :
          rsv' = Resolved("from_cargo_index_path", name,
                          from_cargo_index_path(name, rsv.tree))
    /\ RsvFrame

\* Crate::from_cargo_index_file(path)
RsvFromIndexFile ==
    /\ rsv.calls < MaxCalls
    /\ \E file \in IndexFiles :
          rsv' = Resolved("from_cargo_index_file", file, from_cargo_index_file(file))
    /\ RsvFrame

\* Crate::new(name, versions)
RsvNew ==
    /\ rsv.calls < MaxCalls
    /\ \E versions \in NewVersionLists :
          rsv' = Resolved("new", versions, Ok(Crate(Str1("a"), versions)))
    /\ RsvFrame

\* crte.get_version_index(requested_version)
RsvGetVersionIndex ==
    /\ rsv.calls < MaxCalls
    /\ rsv.has
    /\ \E requested_version \in RequestedVersions :
          rsv' = Queried("get_version_index", requested_version,
                         get_version_index(rsv.crte, requested_version))
    /\ RsvFrame

\* crte.version_starts_with(version)
RsvVersionStartsWith ==
    /\ rsv.calls < MaxCalls
    /\ rsv.has
    /\ \E version \in RequestedPrefixes :
          rsv' = Queried("version_starts_with", version,
                         version_starts_with(rsv.crte, version))
    /\ RsvFrame

\* ------------------------------------------------------------------------
\* Specifications
\* ------------------------------------------------------------------------

NoPrev == [job |-> Job(IdleIngest), result |-> "none", db |-> EmptyDb]

InitBuild ==
    /\ cwd = WorkDir
    /\ files = {WorkDir}
    /\ bld = [b \in Builders |-> IdleBuild]
    /\ builds = 0
    /\ faults = 0
    /\ db = EmptyDb
    /\ world = BaseWorld
    /\ ing = [i \in Ingestors |-> IdleIngest]
    /\ ingests = 0
    /\ prev = NoPrev
    /\ db0 = EmptyDb
    /\ rsv = IdleResolver

NextBuild ==
    \E b \in Builders :
        \/ BuildStart(b)
        \/ BuildClean(b)
        \/ BuildFetch(b)
        \/ BuildExtract(b)
        \/ BuildStage(b)
        \/ DepMkdir(b)
        \/ DepDownload(b)
        \/ DepExtract(b)
        \/ DepCopy(b)
        \/ DepRemoveDir(b)
        \/ DepRemoveFile(b)
        \/ BuildChdir(b)
        \/ BuildRunDoc(b)
        \/ BuildRestore(b)
        \/ BuildClassify(b)

SpecBuild == InitBuild /\ [][NextBuild]_vars

\* The store is empty (create_tables has run), no call is in progress, and
\* the external inputs are any of Worlds.
InitIngest ==
    /\ cwd = WorkDir
    /\ world \in Worlds
    /\ files = {WorkDir} \cup SyncedSources(world)
    /\ bld = [b \in Builders |-> IdleBuild]
    /\ builds = 0
    /\ faults = 0
    /\ db = EmptyDb
    /\ ing = [i \in Ingestors |-> IdleIngest]
    /\ ingests = 0
    /\ prev = NoPrev
    /\ db0 = EmptyDb
    /\ rsv = IdleResolver

NextIngest ==
    \E i \in Ingestors :
        \/ IngestStart(i)
        \/ IngSelectCrate(i)
        \/ IngInsertCrate(i)
        \/ IngSource(i)
        \/ IngDownload(i)
        \/ IngExtract(i)
        \/ IngInfo(i)
        \/ IngRemoveCrateFile(i)
        \/ IngRemoveBuildDir(i)
        \/ IngRegistry(i)
        \/ IngStatus(i)
        \/ IngSelectRelease(i)
        \/ IngInsertRelease(i)
        \/ IngUpdateRelease(i)
        \/ IngSelectKeyword(i)
        \/ IngInsertKeyword(i)
        \/ IngKeywordRel(i)
        \/ IngSelectAuthor(i)
        \/ IngInsertAuthor(i)
        \/ IngAuthorRel(i)
        \/ IngOwnersFetch(i)
        \/ IngSelectOwner(i)
        \/ IngInsertOwner(i)
        \/ IngOwnerRel(i)
        \/ IngSelectVersions(i)
        \/ IngUpdateVersions(i)

SpecIngest == InitIngest /\ [][NextIngest]_vars

\* The same calls, the external inputs being any of Worlds or of StaleWorlds.
InitIngestStale ==
    /\ cwd = WorkDir
    /\ world \in Worlds \cup StaleWorlds
    /\ files = {WorkDir} \cup SyncedSources(world)
    /\ bld = [b \in Builders |-> IdleBuild]
    /\ builds = 0
    /\ faults = 0
    /\ db = EmptyDb
    /\ ing = [i \in Ingestors |-> IdleIngest]
    /\ ingests = 0
    /\ prev = NoPrev
    /\ db0 = EmptyDb
    /\ rsv = IdleResolver

SpecIngestStale == InitIngestStale /\ [][NextIngest]_vars

\* The Index Resolver is called on any of the index trees; nothing is built
\* or ingested.
InitIndex ==
    /\ cwd = WorkDir
    /\ files = {WorkDir}
    /\ bld = [b \in Builders |-> IdleBuild]
    /\ builds = 0
    /\ faults = 0
    /\ db = EmptyDb
    /\ world = BaseWorld
    /\ ing = [i \in Ingestors |-> IdleIngest]
    /\ ingests = 0
    /\ prev = NoPrev
    /\ db0 = EmptyDb
    /\ \E tree \in IndexTrees : rsv = [IdleResolver EXCEPT !.tree = tree]

NextIndex ==
    \/ RsvFromIndexPath
    \/ RsvFromIndexFile
    \/ RsvNew
    \/ RsvGetVersionIndex
    \/ RsvVersionStartsWith

SpecIndex == InitIndex /\ [][NextIndex]_vars

\* Calls of add_crate_into_database one after the other on one store, while
\* the external inputs (synced copies, manifest, registry response, build
\* log and documentation on disk) change between the calls.  No statement or
\* command fails for a reason outside the model.
ReingestWorlds ==
    { BaseWorld,
      [BaseWorld EXCEPT !.manifest = "m2"],
      [BaseWorld EXCEPT !.reg = "nomatch"],
      [BaseWorld EXCEPT !.log = FALSE, !.doc = 0],
      [BaseWorld EXCEPT !.synced = FALSE] }

\* the external inputs change while no call is in progress
WorldChange ==
    /\ \A i \in DOMAIN ing : ing[i].pc = "done"
    /\ \E w \in ReingestWorlds \ {world} :
          /\ world' = w
          /\ files' = (files \ SyncedSources(world)) \cup SyncedSources(w)
    /\ UNCHANGED <<cwd, bld, builds, rsv, faults, db, ing, ingests, prev, db0>>

InitReingest ==
    /\ cwd = WorkDir
    /\ world \in ReingestWorlds
    /\ files = {WorkDir} \cup SyncedSources(world)
    /\ bld = [b \in Builders |-> IdleBuild]
    /\ builds = 0
    /\ faults = MaxFaults
    /\ db = EmptyDb
    /\ ing = [i \in Ingestors |-> IdleIngest]
    /\ ingests = 0
    /\ prev = NoPrev
    /\ db0 = EmptyDb
    /\ rsv = IdleResolver

NextReingest == NextIngest \/ WorldChange

SpecReingest == InitReingest /\ [][NextReingest]_vars

\* Two calls of build_crate_doc in one process, one call per builder, their
\* steps interleaved or one after the other; the working directory and the
\* files are shared.  No operation fails for a reason outside the model:
\* what fails here fails because of the other call.
BuilderPair == {1, 2}

InitBuildPair ==
    /\ cwd = WorkDir
    /\ files = {WorkDir}
    /\ bld = [b \in BuilderPair |-> IdleBuild]
    /\ builds = 0
    /\ faults = MaxFaults
    /\ db = EmptyDb
    /\ world = BaseWorld
    /\ ing = [i \in Ingestors |-> IdleIngest]
    /\ ingests = 0
    /\ prev = NoPrev
    /\ db0 = EmptyDb
    /\ rsv = IdleResolver

NextBuildPair ==
    \E b \in BuilderPair :
        \/ bld[b].pc = "idle" /\ BuildStart(b)
        \/ BuildClean(b)
        \/ BuildFetch(b)
        \/ BuildExtract(b)
        \/ BuildStage(b)
        \/ DepMkdir(b)
        \/ DepDownload(b)
        \/ DepExtract(b)
        \/ DepCopy(b)
        \/ DepRemoveDir(b)
        \/ DepRemoveFile(b)
        \/ BuildChdir(b)
        \/ BuildRunDoc(b)
        \/ BuildRestore(b)
        \/ BuildClassify(b)

SpecBuildPair == InitBuildPair /\ [][NextBuildPair]_vars

\* Two calls of add_crate_into_database on separate connections to the same
\* store, one call per connection, their statements interleaved (the
\* statements of one call are not in a transaction).  No statement is
\* rejected for a reason outside the model: what fails here fails because of
\* the other call.
IngestorPair == {1, 2}

PairWorlds == {BaseWorld, [BaseWorld EXCEPT !.synced = FALSE]}

InitIngestPair ==
    /\ cwd = WorkDir
    /\ world \in PairWorlds
    /\ files = {WorkDir} \cup SyncedSources(world)
    /\ bld = [b \in Builders |-> IdleBuild]
    /\ builds = 0
    /\ faults = MaxFaults
    /\ db = EmptyDb
    /\ ing = [i \in IngestorPair |-> IdleIngest]
    /\ ingests = 0
    /\ prev = NoPrev
    /\ db0 = EmptyDb
    /\ rsv = IdleResolver

NextIngestPair ==
    \E i \in IngestorPair :
        \/ ing[i].pc = "idle" /\ IngestStart(i)
        \/ IngSelectCrate(i)
        \/ IngInsertCrate(i)
        \/ IngSource(i)
        \/ IngDownload(i)
        \/ IngExtract(i)
        \/ IngInfo(i)
        \/ IngRemoveCrateFile(i)
        \/ IngRemoveBuildDir(i)
        \/ IngRegistry(i)
        \/ IngStatus(i)
        \/ IngSelectRelease(i)
        \/ IngInsertRelease(i)
        \/ IngUpdateRelease(i)
        \/ IngSelectKeyword(i)
        \/ IngInsertKeyword(i)
        \/ IngKeywordRel(i)
        \/ IngSelectAuthor(i)
        \/ IngInsertAuthor(i)
        \/ IngAuthorRel(i)
        \/ IngOwnersFetch(i)
        \/ IngSelectOwner(i)
        \/ IngInsertOwner(i)
        \/ IngOwnerRel(i)
        \/ IngSelectVersions(i)
        \/ IngUpdateVersions(i)

SpecIngestPair == InitIngestPair /\ [][NextIngestPair]_vars

\* ------------------------------------------------------------------------
\* Properties of the Build Executor and the Dependency Stager
\* ------------------------------------------------------------------------

BuildOrder == <<"Clean", "Fetch", "Extract", "Stage", "Invoke", "Classify">>

Last(s) == s[Len(s)]

\* C2: build_crate_doc executes its steps in the order Clean, Fetch, Extract,
\* Stage, Invoke, Classify; the steps executed so far are a prefix of that
\* order in which no step but the last has failed, and a failed step ends
\* the call without success.
C2_FixedOrderFailFast ==
    \A b \in Builders :
        LET r == bld[b]
        IN /\ IsPrefix(r.steps, BuildOrder)
           /\ r.failed # "none" =>
                 /\ r.pc = "done"
                 /\ r.result \in {"err", "panic"}
                 /\ r.steps # <<>>
                 /\ Last(r.steps) = r.failed
           /\ (r.pc = "done" /\ r.failed = "none") =>
                 r.result = "ok" /\ r.steps = BuildOrder

C2_Witness ==
    \E b \in Builders :
        /\ bld[b].pc = "done"
        /\ bld[b].failed = "Stage"
        /\ bld[b].steps = <<"Clean", "Fetch", "Extract", "Stage">>
        /\ bld[b].error = "LocalDependencyDownloadError"

\* build_doc has been entered and has ended (returned or panicked)
BuildDocEnded(r) ==
    \/ r.pc = "classify"
    \/ r.pc = "done" /\ Len(r.steps) >= 5

\* C3: whenever build_doc has ended (the tool exited with status zero or
\* non-zero, or could not be started), the process's working directory is
\* the one it had when build_doc was entered.
C3_CwdRestoredOnEveryExit ==
    \A b \in Builders :
        BuildDocEnded(bld[b]) => cwd = bld[b].entry_cwd

\* C4: when Clean..Stage succeeded and the tool ran, build_crate_doc returns
\* success iff the tool exited with status zero, and otherwise returns a
\* build-failed error that carries the captured log text.
C4_ClassifyCarriesLog ==
    \A b \in Builders :
        LET r == bld[b]
        IN (r.pc = "done" /\ r.exit # None) =>
              /\ r.result = "ok" <=> r.exit = Some(0)
              /\ r.exit # Some(0) =>
                    /\ r.result = "err"
                    /\ r.error = "FailedToBuildCrate"
                    /\ r.error_log = Some(r.message)

\* a dependency entry declared with both a path and a version
DeclaresPathAndVersion(dep) ==
    dep.istable /\ dep.path # None /\ dep.version # None

\* a path that belongs to the staging of dependency dep: its target
\* directory, its extraction directory or its archive
StagingPathOf(f, dep) ==
    \E k \in 1..Len(f) :
        \/ f[k] = dep.path[1]
        \/ starts_with(f[k], dep.key \o <<"-">>)

\* the set of paths that differ between two filesystems
Changed(fs0, fs1) == (fs0 \ fs1) \cup (fs1 \ fs0)

\* C10: the Dependency Stager fetches only dependencies declared with both a
\* path and a version; once staging has begun every change to the filesystem
\* belongs to such a dependency (so a manifest without one leaves the
\* filesystem as it was), and when staging succeeds every path+version
\* dependency found in the index has been fetched.
C10_StagesOnlyPathAndVersionDeps ==
    \A b \in Builders :
        LET r == bld[b]
            table == r.toml.deps
            both == {k \in 1..Len(table) : DeclaresPathAndVersion(table[k])}
        IN /\ r.fetched \subseteq {table[k].key : k \in both}
           /\ "Stage" \in Range(r.steps) =>
                 \A f \in Changed(r.files0, files) :
                     \E k \in both : StagingPathOf(f, table[k])
           /\ Len(r.steps) >= 5 =>
                 \A k \in both :
                     LET c == from_cargo_index_path(table[k].key, CratesIoIndex)
                     IN (c.ok /\ version_starts_with(c.val, table[k].version[1]) # None)
                           => table[k].key \in r.fetched

C10_Witness ==
    \E b \in Builders :
        LET r == bld[b]
        IN /\ r.pc = "done"
           /\ r.result = "ok"
           /\ Len(r.toml.deps) = 4
           /\ \E k \in 1..4 : r.toml.deps[k].path # None /\ r.toml.deps[k].version = None
           /\ \E k \in 1..4 : r.toml.deps[k].path = None /\ r.toml.deps[k].version # None
           /\ r.fetched = {Str1("d")}
           /\ Changed(r.files0, files) # {}


\* ------------------------------------------------------------------------
\* Properties of the Metadata Ingestor
\* ------------------------------------------------------------------------

\* the number of elements of a sequence that satisfy a condition
Count(seq, Cond(_)) == Len(SelectSeq(seq, Cond))

NoDuplicates(seq) == \A j, k \in 1..Len(seq) : seq[j] = seq[k] => j = k

\* a call has returned Ok(())
Succeeded(r) == r.pc = "done" /\ r.result = "ok"

\* C1: when a call that returned Ok(()) is followed by a call with the same
\* arguments and the same external inputs that also returns Ok(()), the store
\* holds exactly one crates row for the name and one releases row for (crate
\* id, version), the relationship tables hold no pair twice, and the store
\* equals the store the first call left.
C1_SecondRunChangesNothing ==
    \A i \in Ingestors :
        LET r == ing[i]
        IN (Succeeded(r) /\ prev.result = "ok" /\ prev.job = Job(r)) =>
              /\ Count(db.crates, LAMBDA row : row.name = r.crte.name) = 1
              /\ Count(db.releases, LAMBDA row : /\ row.crate_id = r.crate_id
                                                  /\ row.version = IngVersion(r)) = 1
              /\ NoDuplicates(db.keyword_rels)
              /\ NoDuplicates(db.author_rels)
              /\ NoDuplicates(db.owner_rels)
              /\ db = prev.db

C1_Witness ==
    \E i \in Ingestors :
        /\ Succeeded(ing[i])
        /\ prev.result = "ok"
        /\ prev.job = Job(ing[i])
        /\ ing[i].rejected >= 3
        /\ Len(db.keyword_rels) > 0 /\ Len(db.author_rels) > 0 /\ Len(db.owner_rels) > 0

\* C5: when a call returns Ok(()), possibly after calls with the same
\* arguments and inputs that failed part-way, the store is the one a single
\* uninterrupted successful call would have left from the store in which the
\* first of these calls began.
C5_RerunRecovers ==
    \A i \in Ingestors :
        Succeeded(ing[i]) =>
            db = FullRun(db0, ing[i].crte, ing[i].version_index, world)

C5_Witness ==
    \E i \in Ingestors :
        /\ Succeeded(ing[i])
        /\ prev.job = Job(ing[i])
        /\ prev.result = "err"
        /\ prev.db # db0
        /\ Len(prev.db.releases) > Len(db0.releases)
        /\ prev.db # db

\* C6: a failure in the stages 1 to 5 makes the call return a typed error
\* value, and none of the stages 6 to 9 has been executed.
C6_EarlyFailureIsTypedError ==
    \A i \in Ingestors :
        (ing[i].pc = "done" /\ ing[i].failed_step \in 1..5) =>
            /\ ing[i].result = "err"
            /\ ing[i].steps \cap (6..9) = {}

\* the id of the row of a table with a given slug or login, 0 when absent
IdBy(table, field, value) ==
    IF \E k \in 1..Len(table) : table[k][field] = value
    THEN table[CHOOSE k \in 1..Len(table) : table[k][field] = value].id
    ELSE 0

\* C7: the stages 6 to 9 are best-effort.  A call fails in them only because
\* a query whose result is checked was rejected or the owners body is not
\* JSON, never because an author string does not match or a relationship
\* insert was rejected; and a call that returned Ok(()) has processed every
\* keyword, every matching author and every owner with a login (each has its
\* row and its relationship row) and has executed the version-list update,
\* whatever was skipped or rejected on the way, also when the pair was
\* inserted by the other call between this call's SELECT and its INSERT.
C7_BestEffortRelationships ==
    \A i \in DOMAIN ing :
        LET r == ing[i]
            info == r.crate_info
        IN /\ (r.pc = "done" /\ r.result = "err" /\ r.failed_step \in 6..9) =>
                 /\ r.cause \in {"fault", "input", "constraint"}
                 /\ r.cause = "input" => r.error = "ParseError"
           /\ Succeeded(r) =>
                 /\ \A k \in 1..Len(info.keywords) :
                       \E j \in 1..Len(db.keyword_rels) :
                           db.keyword_rels[j] =
                               <<r.release_id,
                                 IdBy(db.keywords, "slug", slugify(info.keywords[k]))>>
                 /\ \A k \in 1..Len(info.authors) :
                       (Len(info.authors[k]) > 0 /\ info.authors[k][1] \notin {"<", ">"}) =>
                       \E j \in 1..Len(db.author_rels) :
                           db.author_rels[j][1] = r.release_id
                           /\ \E a \in 1..Len(db.authors) :
                                 /\ db.authors[a].id = db.author_rels[j][2]
                                 /\ IsPrefix(db.authors[a].name, info.authors[k])
                 /\ \A k \in 1..Len(OwnersOf(world.owners)) :
                       OwnersOf(world.owners)[k].login # <<>> =>
                       \E j \in 1..Len(db.owner_rels) :
                           db.owner_rels[j] =
                               <<r.crate_id,
                                 IdBy(db.owners, "login", OwnersOf(world.owners)[k].login)>>
                 /\ (6..9) \subseteq r.steps

\* both calls ingested version 1.0 of crate a, whose keywords, authors and
\* owners give pairwise different relationship rows, and each call had an
\* insert rejected because the other call had inserted the pair before it
C7_Witness ==
    /\ DOMAIN ing = IngestorPair
    /\ \A i \in IngestorPair :
          /\ Succeeded(ing[i])
          /\ ing[i].crte.name = Str1("a")
          /\ ing[i].version_index = 1
          /\ ing[i].skipped > 0
          /\ ing[i].rejected > 0

\* the version list of the crate row with a given name
VersionList(d, name) ==
    IF \E k \in 1..Len(d.crates) : d.crates[k].name = name
    THEN d.crates[CHOOSE k \in 1..Len(d.crates) : d.crates[k].name = name].versions
    ELSE <<>>

\* C8: every step leaves each crate's version list duplicate-free and
\* extends it at its end only, so entries are never removed or reordered; and
\* when a call returns Ok(()) the list of its crate contains its version.
\* Together: the list holds every successfully ingested version exactly once,
\* in the order of first ingestion.
C8_VersionListAppendOnly ==
    [][\A c \in IngestCrates :
          /\ IsPrefix(VersionList(db, c.name), VersionList(db', c.name))
          /\ NoDuplicates(VersionList(db', c.name))
          /\ \A i \in Ingestors :
                (Succeeded(ing'[i]) /\ ing'[i].crte = c) =>
                    IngVersion(ing'[i]) \in Range(VersionList(db', c.name))]_vars

C8_Witness ==
    \E i \in Ingestors :
        /\ Succeeded(ing[i])
        /\ prev.result = "ok"
        /\ IngVersion(ing[i]) = V10
        /\ VersionList(db, Str1("a")) = <<V10, V11>>

\* C9: the build_status of a release row is +1 when the log and the
\* documentation directory exist, -1 when the log exists and the directory
\* does not, 0 when the log does not exist; nothing else enters it.
C9_BuildStatusFromEvidence ==
    /\ \A k \in 1..Len(db.releases) :
          db.releases[k].fields.build_status =
              (CASE world.log /\ world.doc >= 1 -> 1
                 [] world.log /\ world.doc = 0 -> -1
                 [] ~world.log -> 0)
    /\ \A i \in Ingestors :
          ing[i].pc \in {"select_release", "insert_release", "update_release"} =>
              ing[i].build_status =
                  (CASE world.log /\ world.doc >= 1 -> 1
                     [] world.log /\ world.doc = 0 -> -1
                     [] ~world.log -> 0)

C9_Witness ==
    /\ world.log /\ world.doc = 0
    /\ \E k \in 1..Len(db.releases) : db.releases[k].fields.build_status = -1


\* ------------------------------------------------------------------------
\* Properties of the Dependency Stager
\* ------------------------------------------------------------------------

\* download_dependencies has just returned Ok(()) to build_crate_doc
StageSucceeded(r) == r.pc = "chdir" /\ Len(r.steps) > 0 /\ Last(r.steps) = "Stage"

\* The directories at which the path+version dependencies of a manifest, and
\* transitively those of the manifests of these dependencies, are declared:
\* each relative to the directory of the package that declares it.
RECURSIVE DeclaredTargets(_, _, _)
DeclaredTargets(root, toml, depth) ==
    IF depth = 0 \/ toml.kind # "table" THEN {}
    ELSE LET deps == get_local_dependencies(toml.deps)
         IN UNION { {root \o <<deps[k].path>>} \cup
                    DeclaredTargets(root \o <<deps[k].path>>,
                                    DepCargoToml(deps[k].crte), depth - 1) :
                    k \in 1..Len(deps) }

\* the nesting depth of local dependencies in the index (a -> d -> e)
MaxDepth == 3

\* C11: when download_dependencies has returned Ok(()), every path+version
\* dependency reachable transitively from the package's manifest is present
\* at its declared relative path under the directory of its parent.
C11_StagingIsTransitive ==
    \A b \in DOMAIN bld :
        StageSucceeded(bld[b]) =>
            \A t \in DeclaredTargets(Abs(BuildRoot(bld[b])), bld[b].toml, MaxDepth) :
                t \in files /\ (t \o <<CargoTomlName>>) \in files

\* the typed errors download_dependencies can return
StagingErrors ==
    {"LocalDependencyIoError", "LocalDependencyDownloadError",
     "LocalDependencyExtractCrateError", "LocalDependencyDownloadDirNotExist",
     "CopyFilesError", "RemoveCrateFile"}

\* no dependency after the one the loop is at has been fetched, and what
\* exists of its archive, extraction directory and target was there before
LaterDepsUntouched(r) ==
    \A k \in (r.k + 1)..Len(r.local_dependencies) :
        LET dep == r.local_dependencies[k]
        IN /\ dep.crte.name \notin r.fetched
           /\ \A f \in { Abs(<<crate_file_name(dep.crte, dep.version_index)>>),
                         Abs(<<canonical_name(dep.crte, dep.version_index)>>),
                         Abs(BuildRoot(r) \o <<dep.path>>) } :
                 f \in files => f \in r.files0

\* C12: a failure while staging makes download_dependencies return a typed
\* error at once: the call has ended with an Err carrying one of the staging
\* errors, and no dependency later in the list has been fetched or staged.
C12_StagingFailsWithTypedError ==
    \A b \in DOMAIN bld :
        (bld[b].pc = "done" /\ bld[b].failed = "Stage") =>
            /\ bld[b].result = "err"
            /\ bld[b].error \in StagingErrors
            /\ LaterDepsUntouched(bld[b])


\* ------------------------------------------------------------------------
\* Properties of the Index Resolver
\* ------------------------------------------------------------------------

\* The files named name in the tree under dir, at any depth, that are not
\* inside a directory named ".git" and are not the file config.json.
RECURSIVE FilesNamed(_, _)
FilesNamed(name, dir) ==
    IF ~dir.isdir THEN {}
    ELSE UNION { LET e == dir.entries[k]
                 IN IF e.isdir
                    THEN IF e.name = DotGit THEN {} ELSE FilesNamed(name, e)
                    ELSE IF e.name = name /\ e.name # ConfigJson THEN {e} ELSE {} :
                 k \in 1..Len(dir.entries) }

\* C13: from_cargo_index_path(name, root) returns the package read from a
\* file named name whenever the tree holds such a file outside the .git
\* subtree (config.json excepted), and fails with FileNotFound exactly when
\* it holds none.
C13_FindsExactlyTheNamedFile ==
    rsv.last.op = "from_cargo_index_path" =>
        LET found == FilesNamed(rsv.last.arg, rsv.tree)
            out == rsv.last.out
        IN /\ found # {} => out.ok /\ \E f \in found : out = from_cargo_index_file(f)
           /\ found = {} => ~out.ok /\ out.err = "FileNotFound"

\* The files named name under dir in the order the search meets them (a
\* directory is searched when it is met), .git directories and config.json
\* left out.
RECURSIVE NamedInOrder(_, _)
RECURSIVE NamedFrom(_, _, _)
NamedInOrder(name, dir) ==
    IF ~dir.isdir THEN <<>> ELSE NamedFrom(name, dir, 1)

NamedFrom(name, dir, k) ==
    IF k > Len(dir.entries) THEN <<>>
    ELSE LET e == dir.entries[k]
             here == IF e.isdir
                     THEN IF e.name = DotGit THEN <<>> ELSE NamedInOrder(name, e)
                     ELSE IF e.name = name /\ e.name # ConfigJson THEN <<e>> ELSE <<>>
         IN here \o NamedFrom(name, dir, k + 1)

\* C23: when the first file named name that the search meets cannot be read
\* or has a line that is rejected, from_cargo_index_path returns the error
\* of that file, whatever the depth of the file.
C23_ReturnsTheFilesError ==
    rsv.last.op = "from_cargo_index_path" =>
        LET found == NamedInOrder(rsv.last.arg, rsv.tree)
        IN (found # <<>> /\ ~from_cargo_index_file(found[1]).ok) =>
               rsv.last.out = from_cargo_index_file(found[1])

\* C14: when from_cargo_index_file returns a Crate for a file with the lines
\* v1..vn, its versions are vn, ..., v1: as many entries as lines, entry k
\* being the version of line n + 1 - k, so that versions[0] is the version
\* of the last line.
C14_VersionsAreReversedLines ==
    (rsv.last.op = "from_cargo_index_file" /\ rsv.last.out.ok) =>
        LET lines == rsv.last.arg.lines
            versions == rsv.last.out.val.versions
        IN /\ Len(versions) = Len(lines)
           /\ \A k \in 1..Len(lines) : versions[k] = lines[Len(lines) + 1 - k].vers
           /\ Len(lines) > 0 => At(versions, 0) = lines[Len(lines)].vers

C14_Witness ==
    /\ rsv.last.op = "from_cargo_index_file"
    /\ rsv.last.out.ok
    /\ Len(rsv.last.arg.lines) = 3
    /\ rsv.last.out.val.versions = <<V20, V11, V10>>
    /\ rsv.crte = rsv.last.out.val

\* the first Len(p) characters of v are p
HasPrefix(v, p) == Len(p) <= Len(v) /\ SubSeq(v, 1, Len(p)) = p

\* C15: version_starts_with("*") returns 0; for any other p it returns the
\* smallest index whose version has p as a literal prefix, and none exactly
\* when no version has it.  The match is on characters: "1.2" matches
\* "1.20.0".
C15_FirstLiteralPrefixMatch ==
    rsv.last.op = "version_starts_with" =>
        LET p == rsv.last.arg
            out == rsv.last.out
            versions == rsv.crte.versions
        IN IF p = <<"*">> THEN out = Some(0)
           ELSE /\ out = None <=> ~ \E i \in 0..(Len(versions) - 1) : HasPrefix(At(versions, i), p)
                /\ out # None =>
                      /\ out[1] \in 0..(Len(versions) - 1)
                      /\ HasPrefix(At(versions, out[1]), p)
                      /\ \A j \in 0..(out[1] - 1) : ~HasPrefix(At(versions, j), p)

C15_Witness ==
    /\ rsv.last.op = "version_starts_with"
    /\ rsv.last.arg = V12
    /\ rsv.crte.versions = <<V10, V1200>>
    /\ rsv.last.out = Some(1)

\* C16: get_version_index(v) returns the first position whose version
\* equals v, none exactly when no version equals v, and a call repeated on
\* the unchanged Crate returns what the call before it returned.
C16_FirstExactMatch ==
    /\ [](rsv.last.op = "get_version_index" =>
            LET v == rsv.last.arg
                out == rsv.last.out
                versions == rsv.crte.versions
            IN /\ out = None <=> v \notin Range(versions)
               /\ out # None =>
                     /\ out[1] \in 0..(Len(versions) - 1)
                     /\ At(versions, out[1]) = v
                     /\ \A j \in 0..(out[1] - 1) : At(versions, j) # v)
    /\ [][(/\ rsv.last.op = "get_version_index"
           /\ rsv'.last.op = "get_version_index"
           /\ rsv'.again
           /\ rsv'.crte = rsv.crte) => rsv'.last.out = rsv.last.out]_vars

C16_Witness ==
    /\ rsv.last.op = "get_version_index"
    /\ rsv.again
    /\ rsv.last.arg = V12
    /\ rsv.crte.versions = <<V12, V12>>
    /\ rsv.last.out = Some(0)


\* ------------------------------------------------------------------------
\* Properties of keywords, authors and owners
\* ------------------------------------------------------------------------

AsyncIoUpper == <<"A", "s", "y", "n", "c", " ", "I", "O">>
AsyncIoSlug == <<"a", "s", "y", "n", "c", "-", "i", "o">>

\* C17: the keywords table never holds two rows with the same slug, whatever
\* calls have run or are running; a call that returned Ok(()) has related
\* its release to the one row of the slug of each of its keywords, so
\* keywords of different calls that share a slug (as "Async IO" and
\* "async-io" do) are related to their releases through the same row.
C17_OneKeywordRowPerSlug ==
    /\ \A j, k \in 1..Len(db.keywords) :
          db.keywords[j].slug = db.keywords[k].slug => j = k
    /\ \A i \in DOMAIN ing :
          Succeeded(ing[i]) =>
              \A n \in 1..Len(ing[i].crate_info.keywords) :
                  \E k \in 1..Len(db.keywords) :
                      /\ db.keywords[k].slug = slugify(ing[i].crate_info.keywords[n])
                      /\ <<ing[i].release_id, db.keywords[k].id>> \in Range(db.keyword_rels)
    /\ slugify(AsyncIoUpper) = AsyncIoSlug
    /\ slugify(AsyncIoSlug) = AsyncIoSlug

\* the two calls ingested different versions whose keywords "A b" and "a-b"
\* share a slug, and both releases are related to the one row of that slug
C17_Witness ==
    /\ DOMAIN ing = IngestorPair
    /\ Succeeded(ing[1]) /\ Succeeded(ing[2])
    /\ ing[1].crate_info.keywords[1] = Text3("A", " ", "b")
    /\ ing[2].crate_info.keywords[1] = Text3("a", "-", "b")
    /\ ing[1].release_id # ing[2].release_id
    /\ \E k \in 1..Len(db.keywords) :
          /\ db.keywords[k].slug = Text3("a", "-", "b")
          /\ <<ing[1].release_id, db.keywords[k].id>> \in Range(db.keyword_rels)
          /\ <<ing[2].release_id, db.keywords[k].id>> \in Range(db.keyword_rels)

JaneDoe == <<"J", "a", "n", "e", " ", "D", "o", "e">>
JaneEmail == <<"j", "a", "n", "e", "@", "e", "x", "a", "m", "p", "l", "e", ".", "c", "o", "m">>
JaneDoeWithEmail == JaneDoe \o <<" ", "<">> \o JaneEmail \o <<">">>

\* the name and email the authors loop stores for an author string, None
\* when the loop passes the string over
ParsedAuthor(author) ==
    LET c == author_captures(author)
    IN IF c = None THEN None
       ELSE Some([name |-> trim(c[1].name), email |-> trim(c[1].email)])

\* the authors row with this name and email, related to the release
AuthorStored(release_id, name, email) ==
    \E k \in 1..Len(db.authors) :
        /\ db.authors[k].name = name
        /\ db.authors[k].email = email
        /\ <<release_id, db.authors[k].id>> \in Range(db.author_rels)

\* C18: "Jane Doe <jane@example.com>" parses to the name "Jane Doe" and the
\* email "jane@example.com", "Jane Doe" to the name "Jane Doe" and an empty
\* email, a string that begins with a bracket does not match; a call that
\* returned Ok(()) for the authors "<e>", "J D <j@e>", "K" has stored and
\* related the rows ("J D", "j@e") and ("K", ""), passed "<e>" over, and
\* related nothing else to its release; the authors block returns an error
\* only when a statement of it fails, never for a string that does not match.
C18_AuthorStringsParse ==
    /\ ParsedAuthor(JaneDoeWithEmail) = Some([name |-> JaneDoe, email |-> JaneEmail])
    /\ ParsedAuthor(JaneDoe) = Some([name |-> JaneDoe, email |-> <<>>])
    /\ ParsedAuthor(Text3("<", "e", ">")) = None
    /\ \A i \in DOMAIN ing :
          LET r == ing[i]
          IN /\ (Succeeded(r) /\ world.manifest = "m1") =>
                   /\ AuthorStored(r.release_id, <<"J", " ", "D">>, Text3("j", "@", "e"))
                   /\ AuthorStored(r.release_id, Str1("K"), <<>>)
                   /\ r.skipped = 1
                   /\ \A k \in 1..Len(db.authors) :
                         db.authors[k].name \in {<<"J", " ", "D">>, Str1("K")}
                   /\ Cardinality({p \in Range(db.author_rels) : p[1] = r.release_id}) = 2
             /\ (r.pc = "done" /\ r.result = "err" /\ r.failed_step = 7) =>
                   r.cause \in {"fault", "constraint"}

\* a call returned Ok(()) for the three author strings: two rows, one string
\* passed over
C18_Witness ==
    \E i \in DOMAIN ing :
        /\ Succeeded(ing[i])
        /\ world.manifest = "m1"
        /\ ing[i].skipped = 1
        /\ Len(db.authors) = 2
        /\ AuthorStored(ing[i].release_id, Str1("K"), <<>>)

\* the owners rows with this login
OwnersRowsOf(login) == {k \in 1..Len(db.owners) : db.owners[k].login = login}

\* C19: when a call has returned Ok(()), every owner of the registry's list
\* with a non-empty login has exactly one owners row with that login, and
\* that row is related to the crate in owner_rels, also for the owners that
\* come after an owner with an empty login; no owners row has an empty
\* login or the name of an owner whose login is empty, and every owner_rels
\* row refers to an owners row.
C19_OwnersWithLoginStored ==
    /\ \A i \in DOMAIN ing :
          Succeeded(ing[i]) =>
              \A n \in 1..Len(OwnersOf(world.owners)) :
                  LET o == OwnersOf(world.owners)[n]
                  IN IF o.login # <<>>
                     THEN /\ Cardinality(OwnersRowsOf(o.login)) = 1
                          /\ \A k \in OwnersRowsOf(o.login) :
                                <<ing[i].crate_id, db.owners[k].id>> \in Range(db.owner_rels)
                     ELSE \A k \in 1..Len(db.owners) : db.owners[k].name # o.name
    /\ OwnersRowsOf(<<>>) = {}
    /\ \A p \in Range(db.owner_rels) : \E k \in 1..Len(db.owners) : db.owners[k].id = p[2]

\* a call returned Ok(()) for the list x, (empty login), w: the owner after
\* the one with the empty login has its row and its relationship
C19_Witness ==
    \E i \in DOMAIN ing :
        /\ Succeeded(ing[i])
        /\ world.owners = "users"
        /\ Len(db.owners) = 2
        /\ \E k \in OwnersRowsOf(Str1("w")) :
              <<ing[i].crate_id, db.owners[k].id>> \in Range(db.owner_rels)

\* ------------------------------------------------------------------------
\* Properties of interleaved builds
\* ------------------------------------------------------------------------

\* the package directory of a call that has entered build_doc
PackageDir(r) == r.entry_cwd \o BuildRoot(r)

\* the documentation command of the call ran in another directory than the
\* package directory of the call
RanElsewhere(r) == r.ran_in # None /\ r.ran_in # PackageDir(r)

\* no call is in progress
NoActiveBuild == \A b \in DOMAIN bld : ~ActiveBuild(bld[b])

\* C20: as long as no two build_crate_doc calls were active at the same
\* time, every documentation command ran in the package directory of its
\* call, under the original working directory, and when no call is in
\* progress the working directory is the original one.
\* (Every external command can be started here; a documentation command
\* that cannot be started is the case of C3.)
C20_OneActiveBuildIsSafe ==
    (\A b \in DOMAIN bld : ~bld[b].overlapped) =>
        /\ \A b \in DOMAIN bld :
              /\ ~RanElsewhere(bld[b])
              /\ bld[b].ran_in # None => bld[b].ran_in = WorkDir \o BuildRoot(bld[b])
        /\ NoActiveBuild => cwd = WorkDir

\* two calls were active at the same time and both have ended: the
\* documentation command of one ran outside its package directory, and the
\* working directory is not the original one
C20_Witness ==
    /\ DOMAIN bld = BuilderPair
    /\ NoActiveBuild
    /\ \A b \in DOMAIN bld : bld[b].overlapped /\ bld[b].pc = "done"
    /\ \E b \in DOMAIN bld : RanElsewhere(bld[b])
    /\ cwd # WorkDir

\* ------------------------------------------------------------------------
\* Properties of names and indexes
\* ------------------------------------------------------------------------

\* "{name}-{versions[i]}", written out
NameHyphenVersion(crte, i) == crte.name \o <<"-">> \o crte.versions[i + 1]

DotCrate == <<".", "c", "r", "a", "t", "e">>

\* C28: an index returned by get_version_index or version_starts_with on a
\* Crate made by from_cargo_index_file, from_cargo_index_path or Crate::new
\* is a position of its versions.
C28_ReturnedIndexIsValid ==
    (rsv.last.op \in {"get_version_index", "version_starts_with"} /\ rsv.last.out # None) =>
        rsv.last.out[1] < Len(rsv.crte.versions)

\* C21: canonical_name(i) is the name, a hyphen and versions[i] for every
\* valid index of every package; in a build of version i the archive that
\* Fetch left and Extract read is "{name}-{versions[i]}.crate" in the working
\* directory, the directory Clean removed, Extract created and Stage read is
\* "{name}-{versions[i]}", and the documentation command ran in that
\* directory.
C21_CanonicalNames ==
    /\ \A crte \in IngestCrates \cup {BuildCrate} :
          \A i \in 0..(Len(crte.versions) - 1) :
              /\ canonical_name(crte, i) = NameHyphenVersion(crte, i)
              /\ crate_file_name(crte, i) = NameHyphenVersion(crte, i) \o DotCrate
    /\ \A b \in DOMAIN bld :
          LET r == bld[b]
              dir == cwd \o <<NameHyphenVersion(r.crte, r.version_index)>>
              archive == cwd \o <<NameHyphenVersion(r.crte, r.version_index) \o DotCrate>>
          IN /\ r.pc = "fetch" => dir \notin files
             /\ r.pc = "extract" => archive \in files
             /\ r.pc = "stage" => archive \in files /\ dir \in files
             /\ r.pc = "chdir" => dir \in files
             /\ r.ran_in # None =>
                   r.ran_in = r.entry_cwd \o <<NameHyphenVersion(r.crte, r.version_index)>>

\* a build of the second version of the list ran its documentation command
\* and returned Ok(())
C21_Witness ==
    \E b \in DOMAIN bld :
        /\ bld[b].version_index = 1
        /\ bld[b].pc = "done" /\ bld[b].result = "ok"
        /\ bld[b].ran_in = WorkDir \o <<NameHyphenVersion(BuildCrate, 1)>>

\* ------------------------------------------------------------------------
\* Properties of staging: suppressed errors and the files left
\* ------------------------------------------------------------------------

\* the dependency is declared with a path and a version and the index has
\* no file for its name, or no version of it starts with the prefix
Unresolvable(dep) ==
    /\ HasPathAndVersion(dep)
    /\ LET dep_crate == from_cargo_index_path(dep.key, CratesIoIndex)
       IN \/ ~dep_crate.ok
          \/ version_starts_with(dep_crate.val, dep.version[1]) = None

\* C22: download_dependencies returns Ok(()) only for a manifest that was
\* parsed and whose dependencies declared with a path and a version were
\* all resolved in the index.
C22_NoSuppressedStagingError ==
    \A b \in DOMAIN bld :
        StageSucceeded(bld[b]) =>
            /\ bld[b].toml.kind # "unparsable"
            /\ \A k \in 1..Len(bld[b].toml.deps) : ~Unresolvable(bld[b].toml.deps[k])

\* C24: when download_dependencies has returned Ok(()), for every dependency
\* it staged the directory at the declared path under the package directory
\* exists and holds the dependency's manifest, the dependency's archive and
\* its extraction directory are not in the working directory, and the
\* package directory itself exists.
C24_StagedTreesInPlace ==
    \A b \in DOMAIN bld :
        StageSucceeded(bld[b]) =>
            /\ Abs(BuildRoot(bld[b])) \in files
            /\ \A k \in 1..Len(bld[b].local_dependencies) :
                  LET dep == bld[b].local_dependencies[k]
                      target == Abs(BuildRoot(bld[b]) \o <<dep.path>>)
                  IN /\ target \in files
                     /\ (target \o <<CargoTomlName>>) \in files
                     /\ Abs(<<crate_file_name(dep.crte, dep.version_index)>>) \notin files
                     /\ Abs(<<canonical_name(dep.crte, dep.version_index)>>) \notin files

\* download_dependencies returned Ok(()) after staging two dependencies
C24_Witness ==
    \E b \in DOMAIN bld :
        /\ StageSucceeded(bld[b])
        /\ Len(bld[b].local_dependencies) = 2
        /\ bld[b].fetched # {}

\* ------------------------------------------------------------------------
\* Properties of the source acquisition and of the release row
\* ------------------------------------------------------------------------

\* what a fetch of the call's version leaves in the working directory
FetchedCopies(r) ==
    { Abs(<<crate_file_name(r.crte, r.version_index)>>),
      Abs(<<canonical_name(r.crte, r.version_index)>>) }

\* C25: when the synced copies exist the files on disk never change; when
\* they do not, a call that has returned Ok or Err has left neither the
\* archive nor the extraction directory of its version on disk.
C25_NoCopyKept ==
    /\ world.synced => files = {WorkDir} \cup SyncedSources(world)
    /\ ~world.synced =>
          \A i \in DOMAIN ing :
              (ing[i].pc = "done" /\ ing[i].result \in {"ok", "err"}) =>
                  FetchedCopies(ing[i]) \cap files = {}

\* the releases rows of a store with this crate id and version
ReleaseRows(d, crate_id, version) ==
    {k \in 1..Len(d.releases) :
        d.releases[k].crate_id = crate_id /\ d.releases[k].version = version}

\* C26: when a call has returned Ok(()), the store holds exactly one
\* releases row for its (crate, version); the row has the id the call used
\* for its relationships and every column other than the key holds the value
\* this call computed; if the store in which the call began already held the
\* row, the row has kept its id and no releases row was added; and each
\* keyword of this call is related to that release id.
C26_ReleaseUpdatedInPlace ==
    \A i \in DOMAIN ing :
        Succeeded(ing[i]) =>
            LET r == ing[i]
                now == ReleaseRows(db, r.crate_id, r.crate_info.version)
                before == ReleaseRows(db0, r.crate_id, r.crate_info.version)
            IN /\ Cardinality(now) = 1
               /\ \A k \in now :
                     /\ db.releases[k].id = r.release_id
                     /\ db.releases[k].fields = ReleaseFields(r)
               /\ \A j \in before :
                     /\ db0.releases[j].id = r.release_id
                     /\ Len(db.releases) = Len(db0.releases)
               /\ \A n \in 1..Len(r.crate_info.keywords) :
                     \E k \in 1..Len(db.keywords) :
                         /\ db.keywords[k].slug = slugify(r.crate_info.keywords[n])
                         /\ <<r.release_id, db.keywords[k].id>> \in Range(db.keyword_rels)

\* a call returned Ok(()) for a version whose row was in the store when the
\* call began, with other statuses, registry data and manifest fields
C26_Witness ==
    \E i \in DOMAIN ing :
        /\ Succeeded(ing[i])
        /\ \E j \in ReleaseRows(db0, ing[i].crate_id, ing[i].crate_info.version) :
              /\ db0.releases[j].fields # ReleaseFields(ing[i])
              /\ db0.releases[j].id = ing[i].release_id
        /\ Len(db.releases) = Len(db0.releases)

\* the positions of the registry's versions array whose "num" is version
MatchingEntries(reg, version) ==
    {k \in 1..Len(RegistryVersions(reg)) : RegistryVersions(reg)[k].num = Some(version)}

\* C27: when a call has returned Ok(()), the release time, yanked flag and
\* download count of its releases row are those of the first element of the
\* registry's array whose "num" is versions[version_index], character for
\* character, and all three are unset when no element has that "num"; a
\* response without such an element never makes the call fail in the
\* registry stage.
C27_RegistryDataOfExactVersion ==
    \A i \in DOMAIN ing :
        LET r == ing[i]
            ms == MatchingEntries(world.reg, IngVersion(r))
        IN /\ Succeeded(r) =>
                 \A k \in ReleaseRows(db, r.crate_id, r.crate_info.version) :
                     LET f == db.releases[k].fields
                     IN IF ms = {}
                        THEN f.release_time = None /\ f.yanked = None /\ f.downloads = None
                        ELSE LET v == RegistryVersions(world.reg)[
                                          CHOOSE m \in ms : \A n \in ms : m <= n]
                             IN /\ f.release_time = v.created_at
                                /\ f.yanked = v.yanked
                                /\ f.downloads = v.downloads
           /\ (r.pc = "done" /\ r.failed_step = 3) => world.reg # "nomatch"

\* a call returned Ok(()) for version 1.1 with a registry array that lists
\* 1.10 first and 1.1 twice: the row holds the values of the first 1.1
C27_Witness ==
    \E i \in DOMAIN ing :
        /\ Succeeded(ing[i])
        /\ world.reg = "dup"
        /\ IngVersion(ing[i]) = V11
        /\ \E k \in ReleaseRows(db, ing[i].crate_id, V11) :
              /\ db.releases[k].fields.release_time = Some("t1")
              /\ db.releases[k].fields.downloads = Some(3)

\* C29: when a call has returned Ok(()), the examples flag of its releases
\* row tells whether the source tree of the package has an examples
\* directory, whether the tree was read from the synced copy or fetched.
C29_ExamplesFlagIsTrue ==
    \A i \in DOMAIN ing :
        Succeeded(ing[i]) =>
            \A k \in ReleaseRows(db, ing[i].crate_id, ing[i].crate_info.version) :
                db.releases[k].fields.have_examples = SourceHasExamples(world.manifest)

\* the version list of the crate row with a given id
VersionListOf(d, crate_id) ==
    IF \E k \in 1..Len(d.crates) : d.crates[k].id = crate_id
    THEN d.crates[CHOOSE k \in 1..Len(d.crates) : d.crates[k].id = crate_id].versions
    ELSE <<>>

\* C30: when a call for versions[version_index] has returned Ok(()), the
\* releases row it wrote has that version string as its version and holds
\* the registry data of that version, and the version of every releases row
\* is in the version list of the row's crate.
C30_RowKeyedByIngestedVersion ==
    \A i \in DOMAIN ing :
        Succeeded(ing[i]) =>
            /\ \A k \in 1..Len(db.releases) :
                  db.releases[k].id = ing[i].release_id =>
                      /\ db.releases[k].version = IngVersion(ing[i])
                      /\ LET q == registry_release(world.reg, db.releases[k].version).val
                             f == db.releases[k].fields
                         IN /\ f.release_time = q.release_time
                            /\ f.yanked = q.yanked
                            /\ f.downloads = q.downloads
            /\ \A k \in 1..Len(db.releases) :
                  db.releases[k].version
                      \in Range(VersionListOf(db, db.releases[k].crate_id))

\* C31: when two calls on separate connections have ingested different
\* versions of one crate and both have returned Ok(()), the version list of
\* the crate holds the version of each of them.
C31_BothVersionsListed ==
    \A i, j \in DOMAIN ing :
        (/\ Succeeded(ing[i]) /\ Succeeded(ing[j])
         /\ ing[i].crte.name = ing[j].crte.name
         /\ IngVersion(ing[i]) # IngVersion(ing[j])) =>
            /\ IngVersion(ing[i]) \in Range(VersionList(db, ing[i].crte.name))
            /\ IngVersion(ing[j]) \in Range(VersionList(db, ing[i].crte.name))

====
